---- MODULE Spec2Model ----
(***************************************************************************)
(* NL-SRE-Semantico: the validated shared context (src/applog), the        *)
(* unification kernel (src/uniform), the character matcher (src/chars) and *)
(* the orchestrator (src/disambiguator, over src/grammar and src/semantic) *)
(* as state machines.                                                      *)
(*                                                                         *)
(* Confidences are hundredths (0.8 is 80).  Numbers of the kernel are      *)
(* multiples of 1e-11, so that the 1e-10 tolerance is 10 units.            *)
(***************************************************************************)
EXTENDS Integers, Sequences, FiniteSets, TLC

VARIABLES
    bindings,       \* SharedContext.bindings : key -> SharedValue
    rules,          \* SharedContext.rules : sequence of SharedRule
    validator,      \* SharedContext.validator
    history,        \* SharedContext.history : sequence of ContextChange
    last,           \* the last call made on the context and what it returned
    cp,             \* what a caller recorded at its last checkpoint()
    frozen,         \* key -> the immutable binding written and the log length then
    substitutions,  \* UnifyContext.substitutions : variable name -> UnifyValue
    ulast,          \* the last call made on the kernel and what it returned
    crashed,        \* the process died of a stack overflow (unbounded recursion)
    config,         \* SemanticDisambiguator.config
    char_matcher,   \* the CharMatcher: dictionary and letter_index
    dlast,          \* the last call made on the engine and what it returned
    grammar         \* SpanishGrammar: the nouns and adjectives added to it

ctxVars == <<bindings, rules, validator, history, last, cp, frozen>>
kernelVars == <<substitutions, ulast, crashed>>
engineVars == <<config, char_matcher, dlast, grammar>>
vars == <<bindings, rules, validator, history, last, cp, frozen,
          substitutions, ulast, crashed, config, char_matcher, dlast, grammar>>

-----------------------------------------------------------------------------
(* Bounds and input domains                                                *)

MaxHistory == 3

Keys == {"k1", "k2"}
Predicates == {"p", "q"}
RuleIds == {"r1", "r2"}

-----------------------------------------------------------------------------
(* uniform::UnifyValue                                                     *)

Atom(s) == [tag |-> "Atom", name |-> s, num |-> 0, items |-> <<>>]
Var(s) == [tag |-> "Var", name |-> s, num |-> 0, items |-> <<>>]
Num(n) == [tag |-> "Num", name |-> "", num |-> n, items |-> <<>>]
List(xs) == [tag |-> "List", name |-> "", num |-> 0, items |-> xs]
Struct(f, xs) == [tag |-> "Struct", name |-> f, num |-> 0, items |-> xs]

(* what deref, occurs_in and unify never return: the recursion does not end *)
Diverges == [tag |-> "Diverges", name |-> "", num |-> 0, items |-> <<>>]

Epsilon == 10

-----------------------------------------------------------------------------
(* applog: data                                                            *)

EmptyMap == [k \in {} |-> 0]
Insert(m, k, v) == [x \in (DOMAIN m) \cup {k} |-> IF x = k THEN v ELSE m[x]]
Remove(m, k) == [x \in (DOMAIN m) \ {k} |-> m[x]]

Min(a, b) == IF a < b THEN a ELSE b

timestamp_now == 0

StrictConfidence == 80
FullConfidence == 100

strict_mode_off == FALSE

strict_mode == TRUE

SharedValue(v, src, conf, imm) ==
    [value |-> v, source |-> src, confidence |-> conf,
     created_at |-> timestamp_now, immutable |-> imm]

NoValue == SharedValue(Atom(""), "System", 0, FALSE)

BindingAdded(k) == [kind |-> "BindingAdded", key |-> k, old |-> NoValue]
BindingModified(k, old) == [kind |-> "BindingModified", key |-> k, old |-> old]
RuleAdded(id) == [kind |-> "RuleAdded", key |-> id, old |-> NoValue]

Goal(pred, args) == [predicate |-> pred, args |-> args]
Fact == [kind |-> "Fact", goals |-> <<>>]
Conjunction(goals) == [kind |-> "Conjunction", goals |-> goals]
Disjunction(goals) == [kind |-> "Disjunction", goals |-> goals]

SharedRule(id, pred, arity, body, src) ==
    [id |-> id, predicate |-> pred, arity |-> arity, body |-> body,
     source |-> src, confidence |-> FullConfidence, flexibility |-> 0]

(* ValidationError, and Ok(()) *)
Result(tag, s1, s2, n1, n2) == [tag |-> tag, s1 |-> s1, s2 |-> s2, n1 |-> n1, n2 |-> n2]
Ok == Result("Ok", "", "", 0, 0)
InvariantViolation(name) == Result("InvariantViolation", name, "", 0, 0)
InsufficientEvidence(pred, min, count) == Result("InsufficientEvidence", pred, "", min, count)
ProtectedPredicate(pred) == Result("ProtectedPredicate", pred, "", 0, 0)
TautologyDetected == Result("TautologyDetected", "", "", 0, 0)
ContradictionDetected(p1, p2) == Result("ContradictionDetected", p1, p2, 0, 0)
ArityMismatch(pred, expected, arity) == Result("ArityMismatch", pred, "", expected, arity)
ImmutableBinding(k) == Result("ImmutableBinding", k, "", 0, 0)
UnauthorizedSource(src) == Result("UnauthorizedSource", src, "", 0, 0)

(* Constraint { name, check } *)
Constraint(name, type, p1, p2, n) ==
    [name |-> name, check |-> [type |-> type, p1 |-> p1, p2 |-> p2, n |-> n]]
NoTautology == Constraint("no_tautology", "NoTautology", "", "", 0)
Forbidden(p) == Constraint("forbidden", "Forbidden", p, "", 0)
FixedArity(p, n) == Constraint("fixed_arity", "FixedArity", p, "", n)
NoContradiction(p1, p2) == Constraint("no_contradiction", "NoContradiction", p1, p2, 0)
MinInstances(p, n) == Constraint("min_instances", "MinInstances", p, "", n)

ConstraintValidator(invs, evidence, protected) ==
    [invariants |-> invs, evidence_required |-> evidence, protected_predicates |-> protected]

DefaultValidator == ConstraintValidator(<<NoTautology>>, EmptyMap, <<>>)

-----------------------------------------------------------------------------
(* uniform: UnifyContext.  A call that recurses for ever is detected by a  *)
(* call that is its own ancestor on the stack (seen), and reported as div. *)

RECURSIVE deref(_, _, _)
deref(s, val, seen) ==
    IF val.tag = "Var" /\ val.name \in DOMAIN s
    THEN IF val.name \in seen
         THEN Diverges
         ELSE deref(s, s[val.name], seen \cup {val.name})
    ELSE val

RECURSIVE occurs_in(_, _, _, _)
RECURSIVE any_occurs_in(_, _, _, _, _)

(* "T", "F", or "D" when the recursion does not end *)
occurs_in(s, var, val, seen) ==
    IF val \in seen THEN "D"
    ELSE LET d == deref(s, val, {})
         IN CASE d.tag = "Diverges" -> "D"
              [] d.tag = "Var" -> IF d.name = var THEN "T" ELSE "F"
              [] d.tag \in {"List", "Struct"} ->
                    any_occurs_in(s, var, d.items, 1, seen \cup {val})
              [] OTHER -> "F"

(* items.iter().any(..), from the i-th item on *)
any_occurs_in(s, var, items, i, seen) ==
    IF i > Len(items) THEN "F"
    ELSE LET o == occurs_in(s, var, items[i], seen)
         IN IF o = "F" THEN any_occurs_in(s, var, items, i + 1, seen) ELSE o

Outcome(ok, div, s) == [ok |-> ok, div |-> div, subst |-> s]

(* bind without the occurs check *)
bind_noOccursCheck(s, var, val) == Outcome(TRUE, FALSE, Insert(s, var, val))

bind(s, var, val) ==
    LET o == occurs_in(s, var, val, {})
    IN CASE o = "D" -> Outcome(FALSE, TRUE, s)
         [] o = "T" -> Outcome(FALSE, FALSE, s)
         [] OTHER -> Outcome(TRUE, FALSE, Insert(s, var, val))

(* the difference taken without .abs() *)
Abs_signed(n) == n

Abs(n) == IF n < 0 THEN -n ELSE n

RECURSIVE unify(_, _, _, _)
RECURSIVE unify_all(_, _, _, _, _)

unify(s, a0, b0, seen) ==
    IF <<s, a0, b0>> \in seen THEN Outcome(FALSE, TRUE, s)
    ELSE
    LET a == deref(s, a0, {})
        b == deref(s, b0, {})
        down == seen \cup {<<s, a0, b0>>}
    IN CASE a.tag = "Diverges" \/ b.tag = "Diverges" -> Outcome(FALSE, TRUE, s)
         [] a.tag = "Var" /\ b.tag = "Var" /\ a.name = b.name -> Outcome(TRUE, FALSE, s)
         [] a.tag = "Var" -> bind(s, a.name, b)
         [] b.tag = "Var" -> bind(s, b.name, a)
         [] a.tag = "Atom" /\ b.tag = "Atom" -> Outcome(a.name = b.name, FALSE, s)
         [] a.tag = "Num" /\ b.tag = "Num" ->
                Outcome(Abs(a.num - b.num) < Epsilon, FALSE, s)
         [] a.tag = "List" /\ b.tag = "List" ->
                IF Len(a.items) # Len(b.items)
                THEN Outcome(FALSE, FALSE, s)
                ELSE unify_all(s, a.items, b.items, 1, down)
         [] a.tag = "Struct" /\ b.tag = "Struct" ->
                IF a.name # b.name \/ Len(a.items) # Len(b.items)
                THEN Outcome(FALSE, FALSE, s)
                ELSE unify_all(s, a.items, b.items, 1, down)
         [] OTHER -> Outcome(FALSE, FALSE, s)

(* la.iter().zip(lb.iter()).all(|(ea, eb)| self.unify(ea, eb)), from the i-th pair on *)
unify_all(s, la, lb, i, seen) ==
    IF i > Len(la) THEN Outcome(TRUE, FALSE, s)
    ELSE LET r == unify(s, la[i], lb[i], seen)
         IN IF r.div \/ ~r.ok THEN r ELSE unify_all(r.subst, la, lb, i + 1, seen)

-----------------------------------------------------------------------------
(* applog: the validator                                                   *)

(* is_tautology with the arity of the head taken to be 1 *)
is_tautology_unary(rule) ==
    /\ rule.body.kind = "Conjunction"
    /\ Len(rule.body.goals) = 1
    /\ rule.body.goals[1].predicate = rule.predicate
    /\ Len(rule.body.goals[1].args) = 1

is_tautology(rule) ==
    /\ rule.body.kind = "Conjunction"
    /\ Len(rule.body.goals) = 1
    /\ rule.body.goals[1].predicate = rule.predicate
    /\ Len(rule.body.goals[1].args) = rule.arity

CountPredicate(existing, pred) ==
    Len(SelectSeq(existing, LAMBDA r : r.predicate = pred))

(* step 1 of validate_rule *)
CheckProtected(v, rule) ==
    IF /\ rule.source = "Improvised"
       /\ \E i \in 1..Len(v.protected_predicates) : v.protected_predicates[i] = rule.predicate
    THEN ProtectedPredicate(rule.predicate)
    ELSE Ok

(* one arm of the match in step 2 *)
CheckInvariant(inv, rule, existing) ==
    CASE inv.check.type = "NoTautology" ->
            IF is_tautology(rule) THEN TautologyDetected ELSE Ok
      [] inv.check.type = "Forbidden" ->
            IF rule.predicate = inv.check.p1 THEN InvariantViolation(inv.name) ELSE Ok
      [] inv.check.type = "FixedArity" ->
            IF rule.predicate = inv.check.p1 /\ rule.arity # inv.check.n
            THEN ArityMismatch(inv.check.p1, inv.check.n, rule.arity)
            ELSE Ok
      [] inv.check.type = "NoContradiction" ->
            IF /\ rule.predicate = inv.check.p1
               /\ \E i \in 1..Len(existing) : existing[i].predicate = inv.check.p2
            THEN ContradictionDetected(inv.check.p1, inv.check.p2)
            ELSE Ok
      [] OTHER -> Ok

(* step 2: the loop over the invariants, from the i-th on *)
RECURSIVE CheckInvariants(_, _, _, _)
CheckInvariants(invs, i, rule, existing) ==
    IF i > Len(invs) THEN Ok
    ELSE LET r == CheckInvariant(invs[i], rule, existing)
         IN IF r.tag # "Ok" THEN r ELSE CheckInvariants(invs, i + 1, rule, existing)

(* step 3 with the comparison off by one *)
CheckEvidence_offByOne(v, rule, existing) ==
    IF rule.predicate \in DOMAIN v.evidence_required
    THEN LET min == v.evidence_required[rule.predicate]
             count == CountPredicate(existing, rule.predicate)
         IN IF count <= min /\ rule.source = "Improvised"
            THEN InsufficientEvidence(rule.predicate, min, count)
            ELSE Ok
    ELSE Ok

(* step 3 *)
CheckEvidence(v, rule, existing) ==
    IF rule.predicate \in DOMAIN v.evidence_required
    THEN LET min == v.evidence_required[rule.predicate]
             count == CountPredicate(existing, rule.predicate)
         IN IF count < min /\ rule.source = "Improvised"
            THEN InsufficientEvidence(rule.predicate, min, count)
            ELSE Ok
    ELSE Ok

(* validate_rule with step 3 moved before step 2 *)
validate_rule_evidenceFirst(v, rule, existing) ==
    LET r1 == CheckProtected(v, rule)
        r3 == CheckEvidence(v, rule, existing)
    IN IF r1.tag # "Ok" THEN r1
       ELSE IF r3.tag # "Ok" THEN r3
       ELSE CheckInvariants(v.invariants, 1, rule, existing)

validate_rule(v, rule, existing) ==
    LET r1 == CheckProtected(v, rule)
        r2 == CheckInvariants(v.invariants, 1, rule, existing)
    IN IF r1.tag # "Ok" THEN r1
       ELSE IF r2.tag # "Ok" THEN r2
       ELSE CheckEvidence(v, rule, existing)

-----------------------------------------------------------------------------
(* applog: SharedContext operations, as functions of the store             *)

Ctx(b, r, h, res) == [bindings |-> b, rules |-> r, history |-> h, res |-> res]

(* Option<&SharedValue> as a set of at most one element *)
get(b, key) == IF key \in DOMAIN b THEN {b[key]} ELSE {}

find_rules(rs, pred) == SelectSeq(rs, LAMBDA r : r.predicate = pred)

(* set without the early return on an immutable binding *)
set_overwritesImmutable(b, r, h, key, value, source, confidence) ==
    LET h1 == IF key \in DOMAIN b
              THEN Append(h, BindingModified(key, b[key]))
              ELSE Append(h, BindingAdded(key))
    IN IF source = "Improvised" /\ strict_mode /\ confidence < StrictConfidence
       THEN Ctx(b, r, h1, UnauthorizedSource(source))
       ELSE Ctx(Insert(b, key, SharedValue(value, source, confidence, FALSE)),
                r, h1, Ok)

set(b, r, h, key, value, source, confidence) ==
    IF key \in DOMAIN b /\ b[key].immutable
    THEN Ctx(b, r, h, ImmutableBinding(key))
    ELSE LET h1 == IF key \in DOMAIN b
                   THEN Append(h, BindingModified(key, b[key]))
                   ELSE Append(h, BindingAdded(key))
         IN IF source = "Improvised" /\ strict_mode /\ confidence < StrictConfidence
            THEN Ctx(b, r, h1, UnauthorizedSource(source))
            ELSE Ctx(Insert(b, key, SharedValue(value, source, confidence, FALSE)),
                     r, h1, Ok)

set_immutable(b, r, h, key, value, source) ==
    IF key \in DOMAIN b
    THEN Ctx(b, r, h, ImmutableBinding(key))
    ELSE Ctx(Insert(b, key, SharedValue(value, source, FullConfidence, TRUE)),
             r, Append(h, BindingAdded(key)), Ok)

add_rule(b, r, h, v, rule) ==
    LET res == validate_rule(v, rule, r)
    IN IF res.tag # "Ok"
       THEN Ctx(b, r, h, res)
       ELSE Ctx(b, Append(r, rule), Append(h, RuleAdded(rule.id)), Ok)

checkpoint(h) == Len(h)

(* one iteration of the pop loop of rollback; no operation of SharedContext pushes *)
(* ContextChange::RuleRemoved, so the log never holds one and its arm is left out  *)
Undo(b, r, h) ==
    LET change == h[Len(h)]
        h1 == SubSeq(h, 1, Len(h) - 1)
    IN CASE change.kind = "BindingAdded" -> Ctx(Remove(b, change.key), r, h1, Ok)
         [] change.kind = "BindingModified" -> Ctx(Insert(b, change.key, change.old), r, h1, Ok)
         [] change.kind = "RuleAdded" ->
                Ctx(b, SelectSeq(r, LAMBDA x : x.id # change.key), h1, Ok)
         [] OTHER -> Ctx(b, r, h1, Ok)

(* rollback whose loop stops one entry early *)
RECURSIVE rollback_stopsEarly(_, _, _, _)
rollback_stopsEarly(b, r, h, c) ==
    IF Len(h) > c + 1
    THEN LET u == Undo(b, r, h) IN rollback_stopsEarly(u.bindings, u.rules, u.history, c)
    ELSE Ctx(b, r, h, Ok)

RECURSIVE rollback(_, _, _, _)
rollback(b, r, h, c) ==
    IF Len(h) > c
    THEN LET u == Undo(b, r, h) IN rollback(u.bindings, u.rules, u.history, c)
    ELSE Ctx(b, r, h, Ok)

-----------------------------------------------------------------------------
(* The engine's state (lib::Config, chars::CharMatcher) and the calls made on it *)

Config(alpha, beta, gamma, min_confidence, max_candidates) ==
    [alpha |-> alpha, beta |-> beta, gamma |-> gamma,
     min_confidence |-> min_confidence, max_candidates |-> max_candidates]

(* Config::default(), in hundredths *)
DefaultConfig == Config(30, 30, 40, 60, 10)

CharMatcher(dict, index) == [dictionary |-> dict, letter_index |-> index]

(* CharMatcher::new() *)
CharMatcherNew == CharMatcher({}, EmptyMap)

(* n: the words given to add_word so far *)
EngineCall(op, input, out, cfg, n) ==
    [op |-> op, input |-> input, out |-> out, config |-> cfg, n |-> n]

SpanishGrammar(ns, adjs) == [nouns |-> ns, adjectives |-> adjs]

(* SpanishGrammar::new(): the base vocabulary holds no noun and no adjective *)
SpanishGrammarNew == SpanishGrammar({}, {})

EngineNew ==
    /\ grammar = SpanishGrammarNew
    /\ config = DefaultConfig
    /\ char_matcher = CharMatcherNew
    /\ dlast = EngineCall("new", <<>>, <<>>, DefaultConfig, 0)

-----------------------------------------------------------------------------
(* Calls on the context                                                    *)

NoRule == SharedRule("", "", 0, Fact, "System")
NoCp == [valid |-> FALSE, c |-> 0, bindings |-> EmptyMap, rules |-> <<>>]

(* before: what checkpoint() would have returned just before the call *)
Call(op, key, src, n, rule, toCp, res, before) ==
    [op |-> op, key |-> key, src |-> src, n |-> n, rule |-> rule, toCp |-> toCp,
     res |-> res, before |-> before]

(* a recorded checkpoint stays usable across set and add_rule calls only *)
Keep(c) == IF c.valid THEN c ELSE NoCp

BindValues == {Atom("a"), Atom("b")}
SetInputs == {<<"User", 79>>, <<"Improvised", 79>>, <<"Improvised", 80>>}
ImmutableSources == {"Improvised"}

Tautology(pred, arity) ==
    Conjunction(<<Goal(pred, [i \in 1..arity |-> Var("X")])>>)

CtxRules ==
    {SharedRule(id, pred, 1, Fact, "User") : id \in RuleIds, pred \in Predicates}
        \cup {SharedRule("r1", "p", 1, Tautology("p", 1), "User")}

(* selfRef: a bind of a variable to a list or structure that contains it *)
KernelCall(op, ok, selfRef) == [op |-> op, ok |-> ok, selfRef |-> selfRef]

KernelNew ==
    /\ substitutions = EmptyMap
    /\ ulast = KernelCall("new", TRUE, FALSE)
    /\ crashed = FALSE

Init ==
    /\ bindings = EmptyMap
    /\ rules = <<>>
    /\ validator = DefaultValidator
    /\ history = <<>>
    /\ last = Call("new", "", "", 0, NoRule, FALSE, Ok, 0)
    /\ cp = NoCp
    /\ frozen = EmptyMap
    /\ KernelNew
    /\ EngineNew

Set(key, value, source, confidence) ==
    /\ Len(history) < MaxHistory
    /\ LET out == set(bindings, rules, history, key, value, source, confidence)
       IN /\ bindings' = out.bindings
          /\ history' = out.history
          /\ last' = Call("set", key, source, confidence, NoRule, FALSE, out.res, checkpoint(history))
    /\ cp' = Keep(cp)
    /\ UNCHANGED <<rules, validator, frozen>>
    /\ UNCHANGED kernelVars
    /\ UNCHANGED engineVars

SetImmutable(key, value, source) ==
    /\ Len(history) < MaxHistory
    /\ LET out == set_immutable(bindings, rules, history, key, value, source)
       IN /\ bindings' = out.bindings
          /\ history' = out.history
          /\ last' = Call("set_immutable", key, source, 0, NoRule, FALSE, out.res, checkpoint(history))
          /\ frozen' = IF out.res.tag = "Ok"
                       THEN Insert(frozen, key, [sv |-> out.bindings[key],
                                                 at |-> Len(out.history)])
                       ELSE frozen
    /\ cp' = NoCp
    /\ UNCHANGED <<rules, validator>>
    /\ UNCHANGED kernelVars
    /\ UNCHANGED engineVars

AddRule(rule) ==
    /\ Len(history) < MaxHistory
    /\ LET out == add_rule(bindings, rules, history, validator, rule)
       IN /\ rules' = out.rules
          /\ history' = out.history
          /\ last' = Call("add_rule", "", rule.source, 0, rule, FALSE, out.res, checkpoint(history))
    /\ cp' = Keep(cp)
    /\ UNCHANGED <<bindings, validator, frozen>>
    /\ UNCHANGED kernelVars
    /\ UNCHANGED engineVars

Checkpoint ==
    /\ cp' = [valid |-> TRUE, c |-> checkpoint(history),
              bindings |-> bindings, rules |-> rules]
    /\ last' = Call("checkpoint", "", "", checkpoint(history), NoRule, FALSE, Ok,
                  checkpoint(history))
    /\ UNCHANGED <<bindings, rules, validator, history, frozen>>
    /\ UNCHANGED kernelVars
    /\ UNCHANGED engineVars

Rollback(c) ==
    /\ LET out == rollback(bindings, rules, history, c)
       IN /\ bindings' = out.bindings
          /\ rules' = out.rules
          /\ history' = out.history
    /\ last' = Call("rollback", "", "", c, NoRule, cp.valid /\ c = cp.c, Ok,
                  checkpoint(history))
    /\ frozen' = [k \in {x \in DOMAIN frozen : frozen[x].at <= c} |-> frozen[k]]
    /\ cp' = IF cp.valid /\ c = cp.c THEN [cp EXCEPT !.valid = FALSE] ELSE NoCp
    /\ UNCHANGED validator
    /\ UNCHANGED kernelVars
    /\ UNCHANGED engineVars

Next ==
    \/ \E k \in Keys, v \in BindValues, in \in SetInputs : Set(k, v, in[1], in[2])
    \/ \E k \in Keys, v \in BindValues, s \in ImmutableSources : SetImmutable(k, v, s)
    \/ \E r \in CtxRules : AddRule(r)
    \/ Checkpoint
    \/ \E c \in 0..(MaxHistory + 1) : Rollback(c)

Spec == Init /\ [][Next]_vars

-----------------------------------------------------------------------------
(* The context built by with_validator: rules only, any validator          *)

MaxRules == 2
MaxInvariants == 2

ConstraintPool ==
    {NoTautology, Forbidden("q"), FixedArity("p", 1), NoContradiction("p", "q")}

InvariantLists ==
    UNION {{s \in [1..n -> ConstraintPool] : \A i, j \in 1..n : i # j => s[i] # s[j]} :
              n \in 0..MaxInvariants}

EvidenceMaps == {EmptyMap} \cup {[k \in {"p"} |-> n] : n \in 1..MaxRules}
ProtectedLists == {<<>>, <<"p">>}

ValidatorConfigs ==
    {ConstraintValidator(invs, ev, prot) :
        invs \in InvariantLists, ev \in EvidenceMaps, prot \in ProtectedLists}

ValRules ==
    {SharedRule("r1", "p", 1, body, src) :
        body \in {Fact, Tautology("p", 1)}, src \in {"User", "Improvised"}}
    \cup {SharedRule("r1", "p", 2, Fact, "Improvised"),
          SharedRule("r1", "q", 1, Fact, "User")}

InitValidator ==
    /\ bindings = EmptyMap
    /\ rules = <<>>
    /\ validator \in ValidatorConfigs
    /\ history = <<>>
    /\ last = Call("with_validator", "", "", 0, NoRule, FALSE, Ok, 0)
    /\ cp = NoCp
    /\ frozen = EmptyMap
    /\ KernelNew
    /\ EngineNew

AddRuleValidated(rule) ==
    /\ Len(rules) < MaxRules
    /\ AddRule(rule)

NextValidator ==
    \/ \E r \in ValRules : AddRuleValidated(r)
    \/ \E c \in 0..MaxRules : Rollback(c)

SpecValidator == InitValidator /\ [][NextValidator]_vars

-----------------------------------------------------------------------------
(* The context built by new(): rules only, the default validator           *)

SelfGoals(pred, n) == [i \in 1..n |-> Goal(pred, <<Var("X")>>)]

DefaultRules ==
    {SharedRule("r1", "p", 1, Fact, "User"),
     SharedRule("r1", "p", 1, Tautology("p", 1), "User"),
     SharedRule("r2", "p", 1, Tautology("p", 1), "Improvised"),
     SharedRule("r2", "p", 2, Tautology("p", 2), "User"),
     SharedRule("r1", "p", 2, Tautology("p", 1), "User"),
     SharedRule("r2", "p", 1, Tautology("q", 1), "Improvised"),
     SharedRule("r1", "p", 1, Conjunction(SelfGoals("p", 2)), "User"),
     SharedRule("r2", "p", 1, Disjunction(SelfGoals("p", 1)), "User")}

NextRules ==
    \/ \E r \in DefaultRules : AddRuleValidated(r)
    \/ \E c \in 0..MaxRules : Rollback(c)

SpecRules == Init /\ [][NextRules]_vars

-----------------------------------------------------------------------------
(* The unification kernel                                                  *)

MaxLen == 2

VarNames == {"X", "Y"}
Leaves == {Atom("a"), Atom("b"), Var("X"), Var("Y"), Num(0), Num(5), Num(20)}
ListItems == {Atom("a"), Var("X"), Var("Y")}
StructArgs == {Atom("a"), Var("X")}
Tuples(S, lo) == UNION {[1..n -> S] : n \in lo..MaxLen}

Values ==
    Leaves
    \cup {List(xs) : xs \in Tuples(ListItems, 0)}
    \cup {Struct("f", xs) : xs \in Tuples(StructArgs, 1)}
    \cup {Struct("g", <<Atom("a")>>)}
    \cup {List(<<v>>) : v \in {List(<<Var("X")>>), List(<<Var("Y")>>),
                               Struct("f", <<Var("X")>>)}}

CtxIdle ==
    /\ bindings = EmptyMap
    /\ rules = <<>>
    /\ validator = DefaultValidator
    /\ history = <<>>
    /\ last = Call("new", "", "", 0, NoRule, FALSE, Ok, 0)
    /\ cp = NoCp
    /\ frozen = EmptyMap

InitKernel == CtxIdle /\ KernelNew /\ EngineNew

RECURSIVE Contains(_, _)
Contains(v, x) ==
    \/ v = Var(x)
    \/ \E i \in 1..Len(v.items) : Contains(v.items[i], x)

Finish(op, out, selfRef) ==
    /\ substitutions' = out.subst
    /\ ulast' = KernelCall(op, out.ok, selfRef)
    /\ crashed' = out.div
    /\ UNCHANGED ctxVars
    /\ UNCHANGED engineVars

Unify(a, b) ==
    /\ ~crashed
    /\ Finish("unify", unify(substitutions, a, b, {}), FALSE)

Bind(var, val) ==
    /\ ~crashed
    /\ Finish("bind", bind(substitutions, var, val),
              val.tag \in {"List", "Struct"} /\ Contains(val, var))

NextUnify == \E a, b \in Values : Unify(a, b)

SpecUnify == InitKernel /\ [][NextUnify]_vars

NextBind ==
    \/ \E a, b \in Values : Unify(a, b)
    \/ \E x \in VarNames, v \in Values : Bind(x, v)

SpecBind == InitKernel /\ [][NextBind]_vars

-----------------------------------------------------------------------------
(* Text.  A String is the sequence of its chars (each a one-char string);  *)
(* Str(s) is the same text as one value, as the tables of the grammar and  *)
(* of the semantic database hold it.  A score (f64 in [0, 1]) is a whole   *)
(* number of 1/Scale parts, Scale being a multiple of every denominator a  *)
(* similarity can have between words of at most twelve distinct letters    *)
(* together; weights and the scores of the grammar and of the semantic     *)
(* database are hundredths.  Sums and products are exact: two scores that  *)
(* f64 rounding alone would separate or join are compared as the reals.    *)

Scale == 8 * 9 * 5 * 7 * 11

Max(a, b) == IF a > b THEN a ELSE b

Range(s) == {s[i] : i \in 1..Len(s)}

RECURSIVE Str(_)
Str(s) == IF s = <<>> THEN "" ELSE s[1] \o Str(Tail(s))

Digits == {"5"}
NonAlphabetic == Digits \cup {" ", "?", "!", ",", "'", "-", "¿", "¡"}
TwoBytes == {"¿", "¡", "á", "é", "í", "ó", "ú", "ü", "ñ", "É"}

is_whitespace(c) == c = " "
is_alphabetic(c) == c \notin NonAlphabetic
is_alphanumeric(c) == is_alphabetic(c) \/ c \in Digits
len_utf8(c) == IF c \in TwoBytes THEN 2 ELSE 1

(* str::len: the length in bytes *)
RECURSIVE len(_)
len(s) == IF s = <<>> THEN 0 ELSE len_utf8(s[1]) + len(Tail(s))

char_to_lowercase(c) ==
    CASE c = "E" -> "e"
      [] c = "É" -> "é"
      [] OTHER -> c

to_lowercase(s) == [i \in 1..Len(s) |-> char_to_lowercase(s[i])]

(* the match of normalize_word *)
unaccent(c) ==
    CASE c \in {"á", "à", "ä", "â"} -> "a"
      [] c \in {"é", "è", "ë", "ê"} -> "e"
      [] c \in {"í", "ì", "ï", "î"} -> "i"
      [] c \in {"ó", "ò", "ö", "ô"} -> "o"
      [] c \in {"ú", "ù", "ü", "û"} -> "u"
      [] c = "ñ" -> "n"
      [] OTHER -> c

(* normalize_word with the accents folded before the case *)
normalize_word_unaccentFirst(word) ==
    LET folded == [i \in 1..Len(word) |-> unaccent(word[i])]
    IN SelectSeq(to_lowercase(folded), is_alphabetic)

normalize_word(word) ==
    LET lower == to_lowercase(word)
    IN SelectSeq([i \in 1..Len(lower) |-> unaccent(lower[i])], is_alphabetic)

-----------------------------------------------------------------------------
(* chars: CharMatcher                                                      *)

weight_jaccard == 40
weight_positional == 15
weight_length == 15
weight_levenshtein == 30
matcher_max_candidates == 15
min_similarity == 25

MatchResult(word, score) == [word |-> word, score |-> score]

(* the loop of add_word over the chars of the word, from the i-th on *)
RECURSIVE index_word(_, _, _)
index_word(index, normalized, i) ==
    IF i > Len(normalized) THEN index
    ELSE LET c == normalized[i]
             bucket == IF c \in DOMAIN index THEN index[c] ELSE <<>>
         IN index_word(Insert(index, c, Append(bucket, normalized)), normalized, i + 1)

add_word(cm, word) ==
    LET normalized == normalize_word(word)
    IN IF normalized = <<>>
       THEN cm
       ELSE CharMatcher(cm.dictionary \cup {normalized},
                        index_word(cm.letter_index, normalized, 1))

RECURSIVE load_dictionary(_, _)
load_dictionary(cm, words) ==
    IF words = <<>> THEN cm
    ELSE load_dictionary(add_word(cm, to_lowercase(Head(words))), Tail(words))

is_valid(cm, word) == normalize_word(word) \in cm.dictionary

(* the row without the substitution: insertions and deletions only *)
RECURSIVE levenshtein_row_noSubstitution(_, _, _, _, _)
levenshtein_row_noSubstitution(a, b, i, above, cur) ==
    IF Len(cur) > Len(b) THEN cur
    ELSE LET j == Len(cur)
             diagonal == IF a[i] = b[j] THEN above[j] ELSE above[j] + 2
         IN levenshtein_row_noSubstitution(a, b, i, above,
                Append(cur, Min(Min(above[j + 1] + 1, cur[j] + 1), diagonal)))

(* one row of the DP matrix from the row above; cur holds dp[i][0..j-1] *)
RECURSIVE levenshtein_row(_, _, _, _, _)
levenshtein_row(a, b, i, above, cur) ==
    IF Len(cur) > Len(b) THEN cur
    ELSE LET j == Len(cur)
             cost == IF a[i] = b[j] THEN 0 ELSE 1
         IN levenshtein_row(a, b, i, above,
                Append(cur, Min(Min(above[j + 1] + 1, cur[j] + 1), above[j] + cost)))

RECURSIVE levenshtein_rows(_, _, _, _)
levenshtein_rows(a, b, i, above) ==
    IF i > Len(a) THEN above[Len(b) + 1]
    ELSE levenshtein_rows(a, b, i + 1, levenshtein_row(a, b, i, above, <<i>>))

levenshtein_distance(a, b) ==
    IF Len(a) = 0 THEN Len(b)
    ELSE IF Len(b) = 0 THEN Len(a)
    ELSE levenshtein_rows(a, b, 1, [j \in 1..(Len(b) + 1) |-> j - 1])

Ratio(n, d) == (n * Scale) \div d

jaccard_similarity(a, b) ==
    LET union == Cardinality(Range(a) \cup Range(b))
    IN IF union = 0 THEN Scale ELSE Ratio(Cardinality(Range(a) \cap Range(b)), union)

positional_similarity(a, b) ==
    LET max_len == Max(Len(a), Len(b))
        matches == Cardinality({i \in 1..Min(Len(a), Len(b)) : a[i] = b[i]})
    IN IF max_len = 0 THEN Scale ELSE Ratio(matches, max_len)

length_similarity(a, b) ==
    LET max_len == Max(Len(a), Len(b))
    IN IF max_len = 0 THEN Scale ELSE Scale - Ratio(Abs(Len(a) - Len(b)), max_len)

levenshtein_similarity(a, b) ==
    LET max_len == Max(Len(a), Len(b))
    IN IF max_len = 0 THEN Scale ELSE Scale - Ratio(levenshtein_distance(a, b), max_len)

(* the score in 1/(100 * Scale) parts *)
calculate_score(input, candidate) ==
    MatchResult(candidate,
        weight_jaccard * jaccard_similarity(input, candidate)
        + weight_positional * positional_similarity(input, candidate)
        + weight_length * length_similarity(input, candidate)
        + weight_levenshtein * levenshtein_similarity(input, candidate))

(* sort_by(score, descending) of a collection that comes out of a HashMap: the  *)
(* sort is stable and the map's iteration order is unspecified, so results of   *)
(* equal score come out in any order                                            *)
RECURSIVE sort_by_score(_)
sort_by_score(results) ==
    IF results = {} THEN {<<>>}
    ELSE UNION {{<<r>> \o rest : rest \in sort_by_score(results \ {r})} :
                    r \in {x \in results : \A y \in results : y.score <= x.score}}

truncate(s, n) == SubSeq(s, 1, Min(Len(s), n))

(* the possible return values of find_candidates *)
find_candidates(cm, input) ==
    LET normalized == normalize_word(input)
        input_chars == Range(normalized)
        entries == UNION {{<<c, i>> : i \in 1..Len(cm.letter_index[c])} :
                             c \in input_chars \cap DOMAIN cm.letter_index}
        candidate_scores(w) == Cardinality({e \in entries : cm.letter_index[e[1]][e[2]] = w})
        min_shared == (Cardinality(input_chars) + 1) \div 2
        candidates == {w \in {cm.letter_index[e[1]][e[2]] : e \in entries} :
                          candidate_scores(w) >= Max(min_shared, 1)}
        results == {r \in {calculate_score(normalized, w) : w \in candidates} :
                       r.score >= min_similarity * Scale}
    IN IF normalized = <<>> THEN {<<>>}
       ELSE IF normalized \in cm.dictionary
       THEN {<<MatchResult(normalized, 100 * Scale)>>}
       ELSE {truncate(s, matcher_max_candidates) : s \in sort_by_score(results)}

-----------------------------------------------------------------------------
(* grammar: SpanishGrammar, with the vocabulary load_default_dictionary    *)
(* of the disambiguator adds to it.  Words of the tables are Str values.   *)

articles == {"el", "la", "los", "las", "un", "una", "unos", "unas"}

prepositions ==
    {"a", "ante", "bajo", "con", "contra", "de", "desde", "en", "entre", "hacia",
     "hasta", "para", "por", "según", "sin", "sobre", "tras"}

(* pronoun -> its case *)
pronouns ==
    [w \in {"yo", "tú", "él", "ella", "nosotros", "me", "te", "le", "se"} |->
        CASE w \in {"me", "te"} -> "DirectObj"
          [] w = "le" -> "IndirectObj"
          [] w = "se" -> "Reflexive"
          [] OTHER -> "Subject"]

conjunctions ==
    {"y", "e", "o", "u", "pero", "sino", "que", "porque", "aunque", "si", "cuando",
     "donde", "como"}

adverbs ==
    {"muy", "bien", "mal", "mucho", "poco", "siempre", "nunca", "ya", "todavía", "aquí",
     "allí", "ahora", "después", "antes", "también", "tampoco", "sí", "no"}

(* the conjugated forms of the verbs of load_verbs *)
verbs ==
    {"gusta", "gustan", "gustó",
     "soy", "eres", "es", "somos", "son",
     "estoy", "estás", "está", "estamos", "están",
     "visito", "visitas", "visita", "visité", "visitó",
     "corro", "corres", "corre", "corremos", "corren",
     "voy", "vas", "va", "vamos", "van", "fui", "fue"}

(* the nouns and adjectives load_default_dictionary adds to the grammar *)
default_nouns == {"roma", "coliseo", "casa", "amor"}

default_adjectives == {"azul", "romano", "grande", "pequeño"}

nouns == grammar.nouns

adjectives == grammar.adjectives

add_noun(g, word) == SpanishGrammar(g.nouns \cup {Str(to_lowercase(word))}, g.adjectives)

add_adjective(g, word) == SpanishGrammar(g.nouns, g.adjectives \cup {Str(to_lowercase(word))})

TokenType(type, case) == [type |-> type, case |-> case]

(* classify_token with the nouns looked up before the adjectives *)
classify_token_nounFirst(token) ==
    LET lower == Str(to_lowercase(token))
    IN CASE lower \in articles -> TokenType("Article", "")
         [] lower \in prepositions -> TokenType("Preposition", "")
         [] lower \in DOMAIN pronouns -> TokenType("Pronoun", pronouns[lower])
         [] lower \in conjunctions -> TokenType("Conjunction", "")
         [] lower \in adverbs -> TokenType("Adverb", "")
         [] lower \in verbs -> TokenType("Verb", "")
         [] lower \in nouns -> TokenType("Noun", "")
         [] lower \in adjectives -> TokenType("Adjective", "")
         [] OTHER -> TokenType("Unknown", "")

classify_token(token) ==
    LET lower == Str(to_lowercase(token))
    IN CASE lower \in articles -> TokenType("Article", "")
         [] lower \in prepositions -> TokenType("Preposition", "")
         [] lower \in DOMAIN pronouns -> TokenType("Pronoun", pronouns[lower])
         [] lower \in conjunctions -> TokenType("Conjunction", "")
         [] lower \in adverbs -> TokenType("Adverb", "")
         [] lower \in verbs -> TokenType("Verb", "")
         [] lower \in adjectives -> TokenType("Adjective", "")
         [] lower \in nouns -> TokenType("Noun", "")
         [] OTHER -> TokenType("Unknown", "")

(* position of the first token of the type, 0 when there is none *)
position_of(types, type) ==
    LET at == {i \in 1..Len(types) : types[i].type = type}
    IN IF at = {} THEN 0 ELSE CHOOSE i \in at : \A j \in at : i <= j

determine_sentence_type(types) ==
    LET verb_pos == position_of(types, "Verb")
        has_subject_before == \E i \in 1..(verb_pos - 1) : types[i].type \in {"Noun", "Pronoun"}
        has_object_after == \E i \in (verb_pos + 1)..Len(types) : types[i].type = "Noun"
        has_dative_before == \E i \in 1..(verb_pos - 1) :
                                 types[i].type = "Pronoun"
                                 /\ types[i].case \in {"IndirectObj", "DirectObj"}
    IN IF verb_pos = 0 THEN "Unknown"
       ELSE IF has_dative_before /\ ~has_subject_before THEN "VSO"
       ELSE IF verb_pos = 1 THEN (IF has_object_after THEN "VSO" ELSE "SV")
       ELSE IF has_subject_before /\ has_object_after THEN "SVO"
       ELSE IF has_subject_before THEN "SV"
       ELSE IF has_object_after THEN "OVS"
       ELSE "Impersonal"

(* the grammatical roles of the components analyze finds, one per token ("" for none) *)
components(types) ==
    LET verb_idx == position_of(types, "Verb")
    IN [i \in 1..Len(types) |->
           CASE types[i].type = "Verb" -> "Verb"
             [] types[i].type = "Noun" ->
                    IF verb_idx # 0 /\ i < verb_idx THEN "Subject" ELSE "DirectObject"
             [] types[i].type = "Pronoun" -> "Subject"
             [] OTHER -> ""]

(* hundredths *)
calculate_validity(roles, sentence_type) ==
    Min(50 + (IF "Verb" \in Range(roles) THEN 20 ELSE 0)
           + (IF "Subject" \in Range(roles) THEN 15 ELSE 0)
           + (IF sentence_type # "Unknown" THEN 10 ELSE 0),
        100)

(* position -> the roles expected there *)
infer_expectations(types) ==
    [p \in {i + 1 : i \in {j \in 1..(Len(types) - 1) :
                              types[j].type \in {"Preposition", "Article"}}} |->
        IF types[p - 1].type = "Preposition"
        THEN {"DirectObject"} ELSE {"Subject", "DirectObject"}]

analyze(tokens) ==
    LET types == [i \in 1..Len(tokens) |-> classify_token(tokens[i])]
        sentence_type == determine_sentence_type(types)
    IN [sentence_type |-> sentence_type,
        validity_score |-> calculate_validity(components(types), sentence_type),
        expected_at |-> infer_expectations(types)]

(* hundredths; positions count from 1 *)
is_valid_at_position(word, position, sentence) ==
    LET test_sentence == IF position <= Len(sentence)
                         THEN [sentence EXCEPT ![position] = word]
                         ELSE Append(sentence, word)
        analysis == analyze(test_sentence)
        word_type == classify_token(word).type
    IN IF position \in DOMAIN analysis.expected_at
       THEN IF \/ word_type = "Noun"
                   /\ analysis.expected_at[position] \cap {"Subject", "DirectObject"} # {}
               \/ word_type = "Adjective"
                   /\ "Adjective" \in analysis.expected_at[position]
            THEN analysis.validity_score + 10
            ELSE analysis.validity_score
       ELSE analysis.validity_score

-----------------------------------------------------------------------------
(* semantic: SemanticDB after new().  Scores are hundredths.               *)

(* opt is the Option of the variant (region, domain): the set of its values;   *)
(* sub is its object_type or valence                                           *)
SemanticCategory(kind, opt, sub) == [kind |-> kind, opt |-> opt, sub |-> sub]

SemanticEntry(category, tags) == [category |-> category, tags |-> tags]

CategoryMatcher(kind, arg) == [kind |-> kind, arg |-> arg]

ThemeInfo(compatible_categories, keywords) ==
    [compatible_categories |-> compatible_categories, keywords |-> keywords]

CompatibilityRule(theme, matcher, score) ==
    [theme |-> theme, matcher |-> matcher, score |-> score]

(* load_base_vocabulary *)
words ==
    [w \in {"roma", "coliseo", "paris", "madrid", "amor", "odio", "paz", "ramo", "mora",
            "casa", "rosita", "azul", "romano"} |->
        CASE w = "roma" -> SemanticEntry(SemanticCategory("Place", {"italia"}, ""),
                               {"arquitectura", "historia", "imperio_romano"})
          [] w = "coliseo" -> SemanticEntry(SemanticCategory("Place", {"italia"}, ""),
                               {"arquitectura", "romano", "monumento"})
          [] w = "paris" -> SemanticEntry(SemanticCategory("Place", {"francia"}, ""),
                               {"romantico", "arte"})
          [] w = "madrid" -> SemanticEntry(SemanticCategory("Place", {"espana"}, ""),
                               {"espana"})
          [] w = "amor" -> SemanticEntry(SemanticCategory("Emotion", {}, "Positive"),
                               {"sentimiento", "romantico"})
          [] w = "odio" -> SemanticEntry(SemanticCategory("Emotion", {}, "Negative"),
                               {"sentimiento", "negativo"})
          [] w = "paz" -> SemanticEntry(SemanticCategory("Concept", {"estado_social"}, ""),
                               {"positivo", "armonia"})
          [] w = "ramo" -> SemanticEntry(SemanticCategory("Object", {}, "Plant"),
                               {"naturaleza", "regalo"})
          [] w = "mora" -> SemanticEntry(SemanticCategory("Object", {}, "Food"),
                               {"comida", "naturaleza"})
          [] w = "casa" -> SemanticEntry(SemanticCategory("Place", {}, ""),
                               {"edificio", "hogar"})
          [] w = "rosita" -> SemanticEntry(SemanticCategory("Person", {}, ""), {"femenino"})
          [] w = "azul" -> SemanticEntry(SemanticCategory("Quality", {}, ""), {"color", "frio"})
          [] w = "romano" -> SemanticEntry(SemanticCategory("Quality", {}, ""),
                               {"roma", "italia", "antiguo"})]

(* load_themes, and the theme load_compatibility_rules adds *)
themes ==
    [t \in {"arquitectura_romana", "romance", "naturaleza", "hogar", "viajes"} |->
        CASE t = "arquitectura_romana" ->
                 ThemeInfo(<<CategoryMatcher("PlaceInRegion", "italia"),
                             CategoryMatcher("ConceptInDomain", "historia")>>,
                           {"coliseo", "romano", "roma", "imperio", "gladiador", "anfiteatro"})
          [] t = "romance" ->
                 ThemeInfo(<<CategoryMatcher("EmotionWithValence", "Positive"),
                             CategoryMatcher("ConceptInDomain", "sentimiento")>>,
                           {"amor", "querer", "corazon", "romantico"})
          [] t = "naturaleza" ->
                 ThemeInfo(<<CategoryMatcher("ObjectOfType", "Plant"),
                             CategoryMatcher("ObjectOfType", "Animal"),
                             CategoryMatcher("ObjectOfType", "Natural")>>,
                           {"flor", "arbol", "rio", "montana"})
          [] t = "hogar" ->
                 ThemeInfo(<<CategoryMatcher("AnyPlace", ""), CategoryMatcher("Any", "")>>,
                           {"casa", "familia", "hogar"})
          [] t = "viajes" ->
                 ThemeInfo(<<CategoryMatcher("AnyPlace", "")>>,
                           {"viajé", "visité", "fui", "desde", "hacia", "madrid", "paris",
                            "roma"})]

compatibility_rules ==
    <<CompatibilityRule("arquitectura_romana", CategoryMatcher("PlaceInRegion", "italia"), 98),
      CompatibilityRule("arquitectura_romana", CategoryMatcher("EmotionWithValence", "Positive"), 5),
      CompatibilityRule("arquitectura_romana", CategoryMatcher("EmotionWithValence", "Negative"), 5),
      CompatibilityRule("arquitectura_romana", CategoryMatcher("ObjectOfType", "Plant"), 15),
      CompatibilityRule("arquitectura_romana", CategoryMatcher("ObjectOfType", "Food"), 10),
      CompatibilityRule("romance", CategoryMatcher("EmotionWithValence", "Positive"), 98),
      CompatibilityRule("romance", CategoryMatcher("PlaceInRegion", "italia"), 30),
      CompatibilityRule("romance", CategoryMatcher("PlaceInRegion", "francia"), 60),
      CompatibilityRule("naturaleza", CategoryMatcher("ObjectOfType", "Plant"), 90),
      CompatibilityRule("naturaleza", CategoryMatcher("ObjectOfType", "Food"), 70),
      CompatibilityRule("viajes", CategoryMatcher("AnyPlace", ""), 95),
      CompatibilityRule("viajes", CategoryMatcher("EmotionWithValence", "Positive"), 20)>>

category_matches(category, matcher) ==
    CASE matcher.kind = "Any" -> TRUE
      [] matcher.kind = "AnyPlace" -> category.kind = "Place"
      [] matcher.kind = "PlaceInRegion" ->
             category.kind = "Place" /\ category.opt = {matcher.arg}
      [] matcher.kind = "ObjectOfType" ->
             category.kind = "Object" /\ category.sub = matcher.arg
      [] matcher.kind = "EmotionWithValence" ->
             category.kind = "Emotion" /\ category.sub = matcher.arg
      [] matcher.kind = "ConceptInDomain" ->
             category.kind = "Concept" /\ category.opt = {matcher.arg}
      [] OTHER -> FALSE

(* compatibility_score with the generic list of the theme consulted before the rules *)
compatibility_score_genericFirst(word, theme) ==
    LET key == Str(to_lowercase(word))
        entry == words[key]
        matching == {i \in 1..Len(compatibility_rules) :
                        /\ compatibility_rules[i].theme = theme
                        /\ category_matches(entry.category, compatibility_rules[i].matcher)}
    IN IF key \notin DOMAIN words THEN 50
       ELSE IF theme \notin DOMAIN themes THEN 50
       ELSE IF \E i \in 1..Len(themes[theme].compatible_categories) :
                  category_matches(entry.category, themes[theme].compatible_categories[i])
       THEN 70
       ELSE IF matching # {}
       THEN compatibility_rules[CHOOSE i \in matching : \A j \in matching : i <= j].score
       ELSE 20

compatibility_score(word, theme) ==
    LET key == Str(to_lowercase(word))
        entry == words[key]
        matching == {i \in 1..Len(compatibility_rules) :
                        /\ compatibility_rules[i].theme = theme
                        /\ category_matches(entry.category, compatibility_rules[i].matcher)}
    IN IF key \notin DOMAIN words THEN 50
       ELSE IF theme \notin DOMAIN themes THEN 50
       ELSE IF matching # {}
       THEN compatibility_rules[CHOOSE i \in matching : \A j \in matching : i <= j].score
       ELSE IF \E i \in 1..Len(themes[theme].compatible_categories) :
                  category_matches(entry.category, themes[theme].compatible_categories[i])
       THEN 70
       ELSE 20

(* what one context word adds to the score of a theme, in halves *)
theme_points(word, theme) ==
    LET lower == Str(to_lowercase(word))
    IN (IF lower \in themes[theme].keywords THEN 2 ELSE 0)
       + (IF lower \in DOMAIN words
          THEN Cardinality(themes[theme].keywords \cap words[lower].tags) ELSE 0)

RECURSIVE theme_score(_, _)
theme_score(context_words, theme) ==
    IF context_words = <<>> THEN 0
    ELSE theme_points(Head(context_words), theme) + theme_score(Tail(context_words), theme)

(* the possible return values of infer_theme, each the Option's set of values *)
(* (only the name: the score is not used by the callers modelled): max_by     *)
(* runs over a HashMap, so any of the themes of the highest score comes out   *)
infer_theme(context_words) ==
    LET theme_scores == [t \in {u \in DOMAIN themes : theme_score(context_words, u) > 0} |->
                            theme_score(context_words, t)]
        best == {t \in DOMAIN theme_scores :
                    \A u \in DOMAIN theme_scores : theme_scores[u] <= theme_scores[t]}
    IN IF DOMAIN theme_scores = {} THEN {{}} ELSE {{t} : t \in best}

-----------------------------------------------------------------------------
(* disambiguator: SemanticDisambiguator.  A fused score (and a confidence) *)
(* is a whole number of 1/Unit parts; the sums and products of the code    *)
(* are taken exactly.  Positions of tokens count from 1.                   *)

Unit == 100 * 100 * Scale

(* The dictionary is bounded to the words of load_default_dictionary that are  *)
(* written with the letters a e l m o r s (and é), in the order of the source. *)
semantic_words ==
    << <<"r", "o", "m", "a">>, <<"a", "m", "o", "r">>, <<"r", "a", "m", "o">>,
       <<"m", "o", "r", "a">> >>

grammar_words ==
    << <<"e", "l">>, <<"l", "a">>, <<"l", "o", "s">>, <<"l", "a", "s">>,
       <<"é", "l">>, <<"e", "l", "l", "a">>, <<"m", "e">>, <<"l", "e">>, <<"s", "e">>,
       <<"a">>, <<"e">>, <<"o">>, <<"m", "a", "l">>,
       <<"e", "r", "e", "s">>, <<"e", "s">>, <<"s", "o", "m", "o", "s">> >>

load_default_dictionary(cm) ==
    load_dictionary(load_dictionary(cm, semantic_words), grammar_words)

(* the loop of tokenize from the i-th char on; current is the word being read *)
RECURSIVE tokenize_from(_, _, _, _)
tokenize_from(sentence, i, tokens, current) ==
    LET flushed == IF current = <<>> THEN tokens ELSE Append(tokens, current)
    IN IF i > Len(sentence) THEN flushed
       ELSE LET c == sentence[i]
            IN IF is_whitespace(c) THEN tokenize_from(sentence, i + 1, flushed, <<>>)
               ELSE IF is_alphanumeric(c) \/ c \in {"'", "-"}
               THEN tokenize_from(sentence, i + 1, tokens, Append(current, c))
               ELSE tokenize_from(sentence, i + 1, Append(flushed, <<c>>), <<>>)

tokenize(sentence) == tokenize_from(sentence, 1, <<>>, <<>>)

is_punctuation(token) == len(token) = 1 /\ ~is_alphanumeric(token[1])

RECURSIVE join(_)
join(tokens) ==
    IF tokens = <<>> THEN <<>>
    ELSE IF Len(tokens) = 1 THEN tokens[1]
    ELSE tokens[1] \o <<" ">> \o join(Tail(tokens))

fused_score_swapped(cfg, char_score, grammar_score, context_score) ==
    cfg.gamma * char_score + (cfg.beta * grammar_score + cfg.alpha * context_score) * Scale

(* alpha * char + beta * grammar + gamma * context *)
fused_score(cfg, char_score, grammar_score, context_score) ==
    cfg.alpha * char_score + (cfg.beta * grammar_score + cfg.gamma * context_score) * Scale

Scored(word, total, char_score, grammar_score, context_score) ==
    [word |-> word, total |-> total, char_score |-> char_score,
     grammar_score |-> grammar_score, context_score |-> context_score]

CorrectionExplanation(char_score, grammar_score, context_score, candidates, reason) ==
    [char_score |-> char_score, grammar_score |-> grammar_score,
     context_score |-> context_score, candidates |-> candidates, reason |-> reason]

sort_by_total_unsorted(scored) == scored

(* sort_by(total, descending): stable *)
RECURSIVE sort_by_total(_)
sort_by_total(scored) ==
    IF scored = <<>> THEN <<>>
    ELSE LET first == CHOOSE i \in 1..Len(scored) :
                          /\ \A j \in 1..Len(scored) : scored[j].total <= scored[i].total
                          /\ \A j \in 1..(i - 1) : scored[j].total < scored[i].total
         IN <<scored[first]>>
                \o sort_by_total(SubSeq(scored, 1, first - 1)
                                     \o SubSeq(scored, first + 1, Len(scored)))

(* what disambiguate_word returns for one list of candidates; scored is its local *)
(* scored_candidates                                                              *)
Disambiguated(correction, conf, explanation, candidates, scored) ==
    [correction |-> correction, conf |-> conf, explanation |-> explanation,
     candidates |-> candidates, scored |-> scored]

score_candidates(cfg, candidates, position, sentence, theme) ==
    [k \in 1..Len(candidates) |->
        LET grammar_score == is_valid_at_position(candidates[k].word, position, sentence)
            context_score == IF theme # {}
                             THEN compatibility_score(candidates[k].word,
                                                      CHOOSE t \in theme : TRUE)
                             ELSE 50
        IN Scored(candidates[k].word,
                  fused_score(cfg, candidates[k].score, grammar_score, context_score),
                  candidates[k].score, grammar_score, context_score)]

(* the possible return values of disambiguate_word *)
disambiguate_word(cfg, cm, word, position, sentence, theme) ==
    {IF candidates = <<>>
     THEN Disambiguated(word, 0,
              CorrectionExplanation(0, 0, 0, <<>>, "No se encontraron candidatos"),
              candidates, <<>>)
     ELSE LET scored == sort_by_total(score_candidates(cfg, candidates, position,
                                                       sentence, theme))
              best == scored[1]
          IN Disambiguated(best.word, best.total,
                 CorrectionExplanation(best.char_score, best.grammar_score,
                     best.context_score,
                     [k \in 1..Min(Len(scored), 5) |-> <<scored[k].word, scored[k].total>>],
                     "Elegido"),
                 candidates, scored)
       : candidates \in find_candidates(cm, word)}

Correction(position, original, corrected, confidence, explanation) ==
    [position |-> position, original |-> original, corrected |-> corrected,
     confidence |-> confidence, explanation |-> explanation]

(* a confidence: the quotient num / den *)
Mean(num, den) == [num |-> num, den |-> den]

ProcessedSentence(original, corrected, confidence, corrections) ==
    [original |-> original, corrected |-> corrected, confidence |-> confidence,
     corrections |-> corrections]

unchanged_as_mean(sentence) == ProcessedSentence(sentence, sentence, Mean(0, 1), <<>>)

(* the return of process when there are no anomalies *)
unchanged(sentence) == ProcessedSentence(sentence, sentence, Mean(Unit, 1), <<>>)

RECURSIVE sum_confidence(_)
sum_confidence(corrections) ==
    IF corrections = <<>> THEN 0
    ELSE Head(corrections).confidence + sum_confidence(Tail(corrections))

global_confidence(corrections) ==
    IF corrections = <<>> THEN Mean(Unit, 1)
    ELSE Mean(sum_confidence(corrections), Len(corrections))

(* the loop of process over the anomalies, from the k-th on: the possible final *)
(* values of corrected_tokens and corrections, with what disambiguate_word      *)
(* returned for each anomaly (calls)                                            *)
RECURSIVE correct_anomalies(_, _, _, _, _, _, _)
correct_anomalies(cfg, cm, tokens, anomalies, theme, k, acc) ==
    IF k > Len(anomalies) THEN {acc}
    ELSE LET idx == anomalies[k]
         IN UNION {correct_anomalies(cfg, cm, tokens, anomalies, theme, k + 1,
                       IF d.conf >= cfg.min_confidence * 100 * Scale
                       THEN [corrected_tokens |->
                                 [acc.corrected_tokens EXCEPT ![idx] = d.correction],
                             corrections |->
                                 Append(acc.corrections,
                                        Correction(idx, tokens[idx], d.correction,
                                                   d.conf, d.explanation)),
                             calls |-> Append(acc.calls, d)]
                       ELSE [acc EXCEPT !.calls = Append(acc.calls, d)])
                   : d \in disambiguate_word(cfg, cm, tokens[idx], idx, tokens, theme)}

(* the possible outcomes of process on the engine of configuration cfg, matcher *)
(* cm and shared context (b, r, h): the value returned, the shared context      *)
(* afterwards, and the locals tokens, anomalies (positions), theme and calls    *)
process(cfg, cm, b, r, h, sentence) ==
    LET tokens == tokenize(sentence)
        anomalies == SelectSeq([i \in 1..Len(tokens) |-> i],
                         LAMBDA i : ~is_valid(cm, tokens[i]) /\ ~is_punctuation(tokens[i]))
        context_words == SelectSeq(tokens, LAMBDA t : is_valid(cm, t))
        Outcome4(result, ctx, theme, calls) ==
            [result |-> result, ctx |-> ctx, tokens |-> tokens, anomalies |-> anomalies,
             theme |-> theme, calls |-> calls]
    IN IF anomalies = <<>>
       THEN {Outcome4(unchanged(sentence), Ctx(b, r, h, Ok), {}, <<>>)}
       ELSE UNION {
              LET ctx == IF theme = {} THEN Ctx(b, r, h, Ok)
                         ELSE set(b, r, h, "current_theme",
                                  Atom(CHOOSE t \in theme : TRUE), "Semantic", 80)
              IN {Outcome4(ProcessedSentence(sentence, join(fin.corrected_tokens),
                                             global_confidence(fin.corrections),
                                             fin.corrections),
                           ctx, theme, fin.calls)
                    : fin \in correct_anomalies(cfg, cm, tokens, anomalies, theme, 1,
                                 [corrected_tokens |-> tokens, corrections |-> <<>>,
                                  calls |-> <<>>])}
              : theme \in infer_theme(context_words)}

-----------------------------------------------------------------------------
(* The character matcher alone (SpecChars)                                 *)

MaxWords == 3

WordPool ==
    {<<"e", "l">>, <<"É", "l">>, <<"e", "l", "l", "a">>, <<"a", "m", "o", "r">>}

WordLists ==
    {<< <<"r", "o", "m", "a">>, <<"a", "m", "o", "r">> >>,
     << <<"é", "l">>, <<"E", "l">> >>}

CharInputs ==
    {<<"s", "m", "o", "r">>, <<"l", "x", "y">>, <<"d", "e", "x">>,
     <<"e", "l", "l", "a">>, <<"5">>}

InitChars == CtxIdle /\ KernelNew /\ EngineNew

AddWord(word) ==
    /\ dlast.n < MaxWords
    /\ char_matcher' = add_word(char_matcher, word)
    /\ dlast' = EngineCall("add_word", word, <<>>, config, dlast.n + 1)
    /\ UNCHANGED <<config, ctxVars, kernelVars, grammar>>

LoadDictionary(wordlist) ==
    /\ dlast.n + Len(wordlist) <= MaxWords
    /\ char_matcher' = load_dictionary(char_matcher, wordlist)
    /\ dlast' = EngineCall("load_dictionary", wordlist, <<>>, config,
                           dlast.n + Len(wordlist))
    /\ UNCHANGED <<config, ctxVars, kernelVars, grammar>>

FindCandidates(input) ==
    /\ \E out \in find_candidates(char_matcher, input) :
           dlast' = EngineCall("find_candidates", input, out, config, dlast.n)
    /\ UNCHANGED <<char_matcher, config, ctxVars, kernelVars, grammar>>

NextChars ==
    \/ \E word \in WordPool : AddWord(word)
    \/ \E wordlist \in WordLists : LoadDictionary(wordlist)
    \/ \E input \in CharInputs : FindCandidates(input)

SpecChars == InitChars /\ [][NextChars]_vars

-----------------------------------------------------------------------------
(* The orchestrator built by new() (SpecProcess)                           *)

MaxThemeLog == 1

(* the default weights; the character score alone; acceptance of any score with *)
(* a small max_candidates                                                       *)
Configs == {DefaultConfig, Config(100, 0, 0, 60, 10), Config(30, 30, 40, 0, 2)}

ExtraWords == << <<"g", "r", "a", "n", "d", "e">> >>

Sentences ==
    {<<"E", "l", " ", " ", "a", "m", "o", "r">>,
     <<"a", "m", "o", "r", "?">>,
     <<"¿", "a", "m", "o", "r", "?">>,
     <<"s", "m", "o", "r">>,
     <<"a", "m", "o", "r", " ", "s", "m", "o", "r">>,
     <<"r", "o", "m", "a", " ", "s", "m", "o", "r">>,
     <<"x">>,
     <<"r", "o", "m", "a", " ", "s", "m", "o", "r", " ", "g", "r", "a", "n", "d", "e">>,
     <<"s", "m", "o", "r", " ", "a", "m", "o", "r", " ", "s", "m", "o", "r">>,
     <<"e", "l", " ", "a", "m", "o", "r", " ", "e", "s", " ", "g", "r", "a", "n", "d", "e">>}

InitProcess ==
    /\ CtxIdle /\ KernelNew
    /\ grammar = SpanishGrammar(default_nouns, default_adjectives)
    /\ config = DefaultConfig
    /\ char_matcher = load_default_dictionary(CharMatcherNew)
    /\ dlast = EngineCall("new", <<>>, <<>>, DefaultConfig, 0)

Process(sentence) ==
    /\ \E o \in process(config, char_matcher, bindings, rules, history, sentence) :
           /\ Len(o.ctx.history) <= MaxThemeLog
           /\ bindings' = o.ctx.bindings
           /\ history' = o.ctx.history
           /\ dlast' = EngineCall("process", sentence, o, config, dlast.n)
    /\ UNCHANGED <<rules, validator, last, cp, frozen, char_matcher, config, kernelVars, grammar>>

SetConfig(cfg) ==
    /\ config' = cfg
    /\ dlast' = EngineCall("set_config", <<>>, <<>>, cfg, dlast.n)
    /\ UNCHANGED <<char_matcher, ctxVars, kernelVars, grammar>>

AddToDictionary(wordlist) ==
    /\ dlast.n = 0
    /\ char_matcher' = load_dictionary(char_matcher, wordlist)
    /\ dlast' = EngineCall("add_to_dictionary", wordlist, <<>>, config, Len(wordlist))
    /\ UNCHANGED <<config, ctxVars, kernelVars, grammar>>

NextProcess ==
    \/ \E sentence \in Sentences : Process(sentence)
    \/ \E cfg \in Configs : SetConfig(cfg)
    \/ AddToDictionary(ExtraWords)

SpecProcess == InitProcess /\ [][NextProcess]_vars

-----------------------------------------------------------------------------
(* uniform: UnifyContext::apply                                            *)

(* the value with its bound variables replaced, or Diverges when the recursion *)
(* does not end; seen: the values being applied on the way down               *)
RECURSIVE apply(_, _, _)
apply(s, val, seen) ==
    IF val \in seen THEN Diverges
    ELSE LET d == deref(s, val, {})
         IN IF d.tag \in {"List", "Struct"}
            THEN LET items == [i \in 1..Len(d.items) |->
                                  apply(s, d.items[i], seen \cup {val})]
                 IN IF \E i \in 1..Len(items) : items[i] = Diverges
                    THEN Diverges
                    ELSE [d EXCEPT !.items = items]
            ELSE d

-----------------------------------------------------------------------------
(* chars: normalize_word and is_valid on arbitrary strings (SpecNormalize) *)

MaxWordLen == 2

(* lower case, upper case, accented, upper case accented, digit, punctuation *)
NormAlphabet == {"e", "l", "É", "é", "ñ", "5", "?"}

RECURSIVE StringsOver(_, _)
StringsOver(alphabet, n) ==
    IF n = 0 THEN {<<>>}
    ELSE LET shorter == StringsOver(alphabet, n - 1)
         IN shorter \cup {Append(s, c) : s \in shorter, c \in alphabet}

NormInputs == StringsOver(NormAlphabet, MaxWordLen)

(* a matcher after new() and load_dictionary of one of the word lists, or of none *)
InitNormalize ==
    /\ CtxIdle /\ KernelNew
    /\ grammar = SpanishGrammarNew
    /\ config = DefaultConfig
    /\ \E wordlist \in WordLists \cup {<<>>} :
           /\ char_matcher = load_dictionary(CharMatcherNew, wordlist)
           /\ dlast = EngineCall("load_dictionary", wordlist, <<>>, DefaultConfig,
                                 Len(wordlist))

NormalizeWord(word) ==
    /\ dlast' = EngineCall("normalize_word", word, normalize_word(word), config, dlast.n)
    /\ UNCHANGED <<char_matcher, config, ctxVars, kernelVars, grammar>>

IsValid(word) ==
    /\ dlast' = EngineCall("is_valid", word, is_valid(char_matcher, word), config, dlast.n)
    /\ UNCHANGED <<char_matcher, config, ctxVars, kernelVars, grammar>>

NextNormalize ==
    \/ \E word \in NormInputs : NormalizeWord(word)
    \/ \E word \in NormInputs : IsValid(word)

SpecNormalize == InitNormalize /\ [][NextNormalize]_vars

-----------------------------------------------------------------------------
(* chars: levenshtein_distance on arbitrary strings (SpecDistance)         *)

MaxStrLen == 3

DistAlphabet == {"a", "m"}

DistWords ==
    {<<"s", "m", "o", "r">>, <<"a", "m", "o", "r">>, <<"r", "o", "m", "a">>}

DistInputs == StringsOver(DistAlphabet, MaxStrLen) \cup DistWords

LevenshteinDistance(a, b) ==
    /\ dlast' = EngineCall("levenshtein_distance", <<a, b>>,
                           levenshtein_distance(a, b), config, dlast.n)
    /\ UNCHANGED <<char_matcher, config, ctxVars, kernelVars, grammar>>

NextDistance == \E a \in DistInputs, b \in DistInputs : LevenshteinDistance(a, b)

SpecDistance == InitChars /\ [][NextDistance]_vars

-----------------------------------------------------------------------------
(* The grammar alone, from SpanishGrammar::new() (SpecGrammar)             *)

(* words given to add_noun: a noun, a word also given to add_adjective, an article *)
NounPool == {<<"c", "a", "s", "a">>, <<"a", "z", "u", "l">>, <<"l", "a">>}

AdjectivePool == {<<"a", "z", "u", "l">>, <<"c", "a", "s", "a">>}

GrammarTokens ==
    NounPool \cup
    {<<"m", "e">>, <<"g", "u", "s", "t", "a">>, <<"e", "n">>, <<"y">>, <<"m", "u", "y">>,
     <<"x">>}

TokenLists ==
    {<< <<"m", "e">>, <<"g", "u", "s", "t", "a">>, <<"l", "a">>, <<"c", "a", "s", "a">> >>,
     << <<"m", "e">>, <<"g", "u", "s", "t", "a">> >>,
     << <<"l", "e">>, <<"g", "u", "s", "t", "a">>, <<"c", "a", "s", "a">> >>,
     << <<"c", "a", "s", "a">>, <<"m", "e">>, <<"g", "u", "s", "t", "a">> >>,
     << <<"e", "l", "l", "a">>, <<"m", "e">>, <<"g", "u", "s", "t", "a">> >>,
     << <<"g", "u", "s", "t", "a">>, <<"l", "a">>, <<"c", "a", "s", "a">> >>,
     << <<"l", "a">>, <<"c", "a", "s", "a">>, <<"e", "s">>, <<"a", "z", "u", "l">> >>}

PositionWords == {<<"c", "a", "s", "a">>, <<"a", "z", "u", "l">>, <<"x">>}

PositionSentences ==
    {<< <<"l", "a">>, <<"x">>, <<"e", "s">> >>,
     << <<"e", "n">>, <<"x">> >>,
     << <<"e", "l", "l", "a">>, <<"e", "s">>, <<"l", "a">> >>,
     << <<"x">>, <<"e", "s">> >>}

MaxPosition == 4

AddNoun(word) ==
    /\ grammar' = add_noun(grammar, word)
    /\ dlast' = EngineCall("add_noun", word, <<>>, config, dlast.n)
    /\ UNCHANGED <<char_matcher, config, ctxVars, kernelVars>>

AddAdjective(word) ==
    /\ grammar' = add_adjective(grammar, word)
    /\ dlast' = EngineCall("add_adjective", word, <<>>, config, dlast.n)
    /\ UNCHANGED <<char_matcher, config, ctxVars, kernelVars>>

ClassifyToken(token) ==
    /\ dlast' = EngineCall("classify_token", token, classify_token(token), config, dlast.n)
    /\ UNCHANGED <<char_matcher, config, ctxVars, kernelVars, grammar>>

Analyze(tokens) ==
    /\ dlast' = EngineCall("analyze", tokens, analyze(tokens), config, dlast.n)
    /\ UNCHANGED <<char_matcher, config, ctxVars, kernelVars, grammar>>

IsValidAtPosition(word, position, sentence) ==
    /\ dlast' = EngineCall("is_valid_at_position", <<word, position, sentence>>,
                           is_valid_at_position(word, position, sentence),
                           config, dlast.n)
    /\ UNCHANGED <<char_matcher, config, ctxVars, kernelVars, grammar>>

NextGrammar ==
    \/ \E word \in NounPool : AddNoun(word)
    \/ \E word \in AdjectivePool : AddAdjective(word)
    \/ \E token \in GrammarTokens : ClassifyToken(token)
    \/ \E tokens \in TokenLists : Analyze(tokens)
    \/ \E word \in PositionWords, position \in 1..MaxPosition,
          sentence \in PositionSentences :
           IsValidAtPosition(word, position, sentence)

SpecGrammar == InitChars /\ [][NextGrammar]_vars

-----------------------------------------------------------------------------
(* The semantic database alone, as SemanticDB::new() loads it (SpecSemantic) *)

(* the words of the database, an unknown word, a word in mixed case *)
SemanticInputs ==
    {<<"r", "o", "m", "a">>, <<"c", "o", "l", "i", "s", "e", "o">>,
     <<"p", "a", "r", "i", "s">>, <<"m", "a", "d", "r", "i", "d">>,
     <<"a", "m", "o", "r">>, <<"o", "d", "i", "o">>, <<"p", "a", "z">>,
     <<"r", "a", "m", "o">>, <<"m", "o", "r", "a">>, <<"c", "a", "s", "a">>,
     <<"r", "o", "s", "i", "t", "a">>, <<"a", "z", "u", "l">>,
     <<"r", "o", "m", "a", "n", "o">>, <<"x">>, <<"c", "o", "l", "i", "s", "E", "o">>}

(* the themes of the database and two unknown themes *)
ThemeInputs == DOMAIN themes \cup {"deportes", ""}

CompatibilityScore(word, theme) ==
    /\ dlast' = EngineCall("compatibility_score", <<word, theme>>,
                           compatibility_score(word, theme), config, dlast.n)
    /\ UNCHANGED <<char_matcher, config, ctxVars, kernelVars, grammar>>

NextSemantic ==
    \E word \in SemanticInputs, theme \in ThemeInputs : CompatibilityScore(word, theme)

SpecSemantic == InitChars /\ [][NextSemantic]_vars

-----------------------------------------------------------------------------
(* Properties of the shared context (Spec)                                 *)

Mutators == {"set", "set_immutable", "add_rule"}
Rejected(call) == call.op \in Mutators /\ call.res.tag # "Ok"

\* C1: after set / add_rule calls (accepted or rejected) made since c = checkpoint(),
\* rollback(c) makes get(k) for every key and find_rules(p) for every predicate
\* return what they returned when the checkpoint was taken.
C1_RollbackRestores ==
    (last.op = "rollback" /\ last.toCp) =>
        /\ \A k \in Keys : get(bindings, k) = get(cp.bindings, k)
        /\ \A p \in Predicates : find_rules(rules, p) = find_rules(cp.rules, p)

\* C2: once set_immutable(k, ..) has succeeded and no rollback has gone back past it,
\* every later set(k, ..) and set_immutable(k, ..) returns ImmutableBinding(k) and
\* get(k) keeps returning the immutable value written.
C2_ImmutableStays ==
    [][\A k \in DOMAIN frozen :
          /\ (last'.op \in {"set", "set_immutable"} /\ last'.key = k)
                => last'.res = ImmutableBinding(k)
          /\ (k \in DOMAIN frozen') => get(bindings', k) = {frozen[k].sv}]_vars

C2_Witness ==
    /\ last.op = "set"
    /\ last.key \in DOMAIN frozen
    /\ last.res = ImmutableBinding(last.key)
    /\ \E k \in DOMAIN bindings : k # last.key /\ ~bindings[k].immutable
    /\ Len(history) > frozen[last.key].at

\* C3: a rejected set, set_immutable or add_rule leaves bindings, rules and the change
\* log as they were, so checkpoint() returns the same value before and after it.
C3_RejectedLeavesStore ==
    [][Rejected(last') =>
          /\ bindings' = bindings
          /\ rules' = rules
          /\ history' = history
          /\ checkpoint(history') = checkpoint(history)]_vars

\* C7: checkpoint() returns the change-log length; it does not decrease across set,
\* set_immutable and add_rule, and right after rollback(c) it is the minimum of c and
\* its value before the rollback.
C7_CheckpointLength ==
    /\ last.op = "checkpoint" => last.n = Len(history)
    /\ last.op \in Mutators => checkpoint(history) >= last.before
    /\ last.op = "rollback" => checkpoint(history) = Min(last.n, last.before)

C7_Witness ==
    /\ last.op = "rollback"
    /\ 0 < last.n
    /\ last.n < last.before

NoWeakImprovised ==
    \A k \in DOMAIN bindings :
        ~(bindings[k].source = "Improvised" /\ bindings[k].confidence < StrictConfidence)

WeakImprovisedSet ==
    last.op = "set" /\ last.src = "Improvised" /\ last.n < StrictConfidence

\* C10 as stated: set(key, v, Improvised, c) with c < 0.8 returns UnauthorizedSource,
\* and no binding with source Improvised and confidence below 0.8 is in the store.
C10_AlwaysUnauthorized ==
    /\ WeakImprovisedSet => last.res = UnauthorizedSource("Improvised")
    /\ NoWeakImprovised

\* C10 amended: set(key, v, Improvised, c) with c < 0.8 is rejected, with
\* ImmutableBinding when the key holds an immutable binding and with
\* UnauthorizedSource otherwise, and no binding with source Improvised and confidence
\* below 0.8 is in the store.
C10_WeakImprovisedRejected ==
    /\ WeakImprovisedSet =>
          last.res = IF last.key \in DOMAIN bindings /\ bindings[last.key].immutable
                     THEN ImmutableBinding(last.key)
                     ELSE UnauthorizedSource("Improvised")
    /\ NoWeakImprovised

C10_Witness ==
    /\ WeakImprovisedSet
    /\ last.res = UnauthorizedSource("Improvised")
    /\ last.key \in DOMAIN bindings
    /\ bindings[last.key].source = "Improvised"

-----------------------------------------------------------------------------
(* Properties of the validator (SpecValidator)                             *)

(* the rule store the last add_rule call validated against *)
Existing == IF last.res.tag = "Ok" THEN SubSeq(rules, 1, Len(rules) - 1) ELSE rules

ChecksInOrder(v, rule, existing) ==
    <<CheckProtected(v, rule)>>
        \o [i \in 1..Len(v.invariants) |-> CheckInvariant(v.invariants[i], rule, existing)]
        \o <<CheckEvidence(v, rule, existing)>>

Failing(cs) == {i \in 1..Len(cs) : cs[i].tag # "Ok"}

IsProtected(v, pred) ==
    \E i \in 1..Len(v.protected_predicates) : v.protected_predicates[i] = pred

\* C8: validate_rule reports the error of the first failing check in the order
\* protected predicate (Improvised only), invariants in registration order, minimum
\* evidence; an Improvised tautology on a protected predicate gets ProtectedPredicate,
\* and a tautology that passes the protected check gets TautologyDetected when
\* NoTautology is the first invariant, whatever the evidence.
C8_FirstFailingCheck ==
    last.op = "add_rule" =>
        LET cs == ChecksInOrder(validator, last.rule, Existing)
        IN /\ IF Failing(cs) = {}
              THEN last.res = Ok
              ELSE last.res = cs[CHOOSE i \in Failing(cs) : \A j \in Failing(cs) : i <= j]
           /\ ( /\ last.rule.source = "Improvised"
                /\ IsProtected(validator, last.rule.predicate)
                /\ is_tautology(last.rule) )
                 => last.res = ProtectedPredicate(last.rule.predicate)
           /\ ( /\ ~(last.rule.source = "Improvised"
                       /\ IsProtected(validator, last.rule.predicate))
                /\ Len(validator.invariants) > 0
                /\ validator.invariants[1] = NoTautology
                /\ is_tautology(last.rule) )
                 => last.res = TautologyDetected

C8_Witness ==
    /\ last.op = "add_rule"
    /\ last.res = TautologyDetected
    /\ Len(validator.invariants) = 2
    /\ validator.invariants[2] = NoTautology
    /\ CheckEvidence(validator, last.rule, Existing).tag = "InsufficientEvidence"

EvidenceRegistered ==
    last.op = "add_rule" /\ last.rule.predicate \in DOMAIN validator.evidence_required

MatchingCount ==
    Cardinality({i \in 1..Len(Existing) : Existing[i].predicate = last.rule.predicate})

PassesEarlierChecks ==
    /\ CheckProtected(validator, last.rule) = Ok
    /\ \A i \in 1..Len(validator.invariants) :
          CheckInvariant(validator.invariants[i], last.rule, Existing) = Ok

\* C9 as stated: with a minimum-evidence count n registered for its predicate, an
\* Improvised rule is rejected with InsufficientEvidence exactly when fewer than n
\* rules with that predicate are in the store; other sources never are.
C9_EvidenceExact ==
    EvidenceRegistered =>
        LET n == validator.evidence_required[last.rule.predicate]
        IN /\ last.rule.source = "Improvised"
                => (last.res.tag = "InsufficientEvidence" <=> MatchingCount < n)
           /\ last.rule.source # "Improvised" => last.res.tag # "InsufficientEvidence"

\* C9 amended: with a minimum-evidence count n registered for its predicate, an
\* Improvised rule is rejected with InsufficientEvidence exactly when fewer than n
\* rules with that predicate are in the store and neither the protected-predicate
\* check nor an invariant rejects it first; other sources never are.
C9_EvidenceAfterEarlierChecks ==
    EvidenceRegistered =>
        LET n == validator.evidence_required[last.rule.predicate]
        IN /\ last.rule.source = "Improvised"
                => (last.res = InsufficientEvidence(last.rule.predicate, n, MatchingCount)
                        <=> (MatchingCount < n /\ PassesEarlierChecks))
           /\ last.rule.source = "Improvised"
                => (last.res.tag = "InsufficientEvidence"
                        <=> (MatchingCount < n /\ PassesEarlierChecks))
           /\ last.rule.source # "Improvised" => last.res.tag # "InsufficientEvidence"

C9_Witness ==
    /\ EvidenceRegistered
    /\ last.rule.source = "Improvised"
    /\ last.res.tag = "InsufficientEvidence"
    /\ MatchingCount = 1

-----------------------------------------------------------------------------
(* Properties of the default context (SpecRules)                           *)

(* a body that is a conjunction of one goal with the head's predicate and arity *)
SingleSelfGoal(rule) ==
    /\ rule.body.kind = "Conjunction"
    /\ Len(rule.body.goals) = 1
    /\ rule.body.goals[1].predicate = rule.predicate
    /\ Len(rule.body.goals[1].args) = rule.arity

-----------------------------------------------------------------------------
(* Properties of the unification kernel (SpecUnify, SpecBind)              *)

\* C4: bind(X, v) returns false and leaves the substitution store unchanged whenever v
\* is a list or structure that contains Var(X) at any depth, in every store reachable
\* through bind and unify calls.
C4_BindOccursCheck ==
    [][(ulast'.op = "bind" /\ ulast'.selfRef) =>
          /\ ~crashed'
          /\ ~ulast'.ok
          /\ substitutions' = substitutions]_vars

\* C5: a unify(a, b) call that returns false commits no binding: the substitution
\* store is what it was before the call.
C5_FailedUnifyCommitsNothing ==
    [][(ulast'.op = "unify" /\ ~crashed' /\ ~ulast'.ok) =>
          substitutions' = substitutions]_vars

UnifyFrom(a, b) == unify(substitutions, a, b, {})

\* C6: from every store reachable through unify calls, unify(a, b) and unify(b, a)
\* return the same boolean, for all values a and b.
C6_UnifySymmetric ==
    \A a, b \in Values :
        /\ ~UnifyFrom(a, b).div
        /\ UnifyFrom(a, b).ok = UnifyFrom(b, a).ok

C6_Witness ==
    /\ ulast.op = "unify"
    /\ substitutions # EmptyMap
    /\ \E a, b \in Values :
          /\ a.tag = "Var" /\ b.tag = "List"
          /\ UnifyFrom(a, b).ok /\ UnifyFrom(a, b).subst # substitutions
          /\ UnifyFrom(b, a).ok /\ UnifyFrom(b, a).subst # substitutions
    /\ \E a, b \in Values :
          /\ a.tag = "List" /\ b.tag = "List" /\ Len(a.items) = Len(b.items)
          /\ ~UnifyFrom(a, b).ok /\ ~UnifyFrom(b, a).ok
          /\ UnifyFrom(a, b).subst # substitutions

-----------------------------------------------------------------------------
(* Properties of the orchestrator (SpecProcess)                            *)

Processed == dlast.op = "process"

(* a token the matcher's dictionary holds *)
InDictionary(token) == normalize_word(token) \in char_matcher.dictionary

(* a token of one character that is neither alphanumeric nor whitespace *)
PunctuationMark(token) ==
    Len(token) = 1 /\ ~is_alphanumeric(token[1]) /\ ~is_whitespace(token[1])

WordsAndPunctuation(tokens) ==
    \A i \in 1..Len(tokens) : InDictionary(tokens[i]) \/ PunctuationMark(tokens[i])

IsOne(confidence) == confidence.num = confidence.den * Unit

\* C12: when every token of the input is a dictionary word or punctuation, process returns
\* corrected equal to the input character for character, confidence 1.0 and no corrections,
\* and leaves the shared context as it was.
C12_ValidSentenceUnchanged ==
    [][(dlast'.op = "process" /\ WordsAndPunctuation(tokenize(dlast'.input)))
          => /\ dlast'.out.result.corrected = dlast'.input
             /\ IsOne(dlast'.out.result.confidence)
             /\ dlast'.out.result.corrections = <<>>
             /\ UNCHANGED <<bindings, rules, history>>]_vars

\* C13: a token of one punctuation character, non-ASCII marks included, is never among the
\* anomalies of process, and a sentence of dictionary words and punctuation takes the
\* no-anomaly path.
C13_PunctuationNeverAnomaly ==
    Processed =>
        /\ \A k \in 1..Len(dlast.out.anomalies) :
               ~PunctuationMark(dlast.out.tokens[dlast.out.anomalies[k]])
        /\ WordsAndPunctuation(dlast.out.tokens) => dlast.out.anomalies = <<>>

(* the k-th anomaly of the last call of process: its position, what *)
(* disambiguate_word returned for it, and the corrections recorded for it *)
Anomalies == 1..Len(dlast.out.anomalies)
PositionOf(k) == dlast.out.anomalies[k]
CallOf(k) == dlast.out.calls[k]
CorrectionsAt(k) ==
    SelectSeq(dlast.out.result.corrections, LAMBDA c : c.position = PositionOf(k))
MinConfidence == dlast.config.min_confidence * 100 * Scale

(* the highest fused score among the candidates scored for the k-th anomaly *)
MaxTotal(k) ==
    LET totals == {CallOf(k).scored[j].total : j \in 1..Len(CallOf(k).scored)}
    IN CHOOSE t \in totals : \A u \in totals : u <= t

HasCandidates(k) == CallOf(k).candidates # <<>>

(* the token is replaced by a candidate of the highest fused score, recorded with it *)
ReplacedByBest(k) ==
    /\ Len(CorrectionsAt(k)) = 1
    /\ CorrectionsAt(k)[1].original = dlast.out.tokens[PositionOf(k)]
    /\ CorrectionsAt(k)[1].confidence = MaxTotal(k)
    /\ \E j \in 1..Len(CallOf(k).scored) :
           /\ CallOf(k).scored[j].total = MaxTotal(k)
           /\ CallOf(k).scored[j].word = CorrectionsAt(k)[1].corrected

(* the tokens of the corrected text: the recorded corrections, else the input's *)
TokensAfter ==
    [i \in 1..Len(dlast.out.tokens) |->
        LET at == SelectSeq(dlast.out.result.corrections, LAMBDA c : c.position = i)
        IN IF at = <<>> THEN dlast.out.tokens[i] ELSE at[1].corrected]

AllAboveFloor ==
    \A i \in 1..Len(dlast.out.result.corrections) :
        dlast.out.result.corrections[i].confidence >= MinConfidence

\* C14 (as stated): for each anomaly, the token is replaced by the candidate of maximum fused
\* score if and only if that score is >= min_confidence; otherwise the token is left
\* unmodified and no correction is recorded; every recorded correction has confidence
\* >= min_confidence.
C14_BestOrNothing ==
    (Processed /\ dlast.out.anomalies # <<>>) =>
        /\ \A k \in Anomalies :
               IF HasCandidates(k) /\ MaxTotal(k) >= MinConfidence
               THEN ReplacedByBest(k)
               ELSE CorrectionsAt(k) = <<>>
        /\ dlast.out.result.corrected = join(TokensAfter)
        /\ AllAboveFloor

\* C14 (amended): the same for each anomaly that has a candidate; an anomaly with no candidate
\* keeps its token, and a correction of the token to itself with confidence 0.0 is recorded
\* for it exactly when min_confidence <= 0.
C14_BestOrNothingWithCandidates ==
    (Processed /\ dlast.out.anomalies # <<>>) =>
        /\ \A k \in Anomalies :
               IF HasCandidates(k)
               THEN IF MaxTotal(k) >= MinConfidence
                    THEN ReplacedByBest(k)
                    ELSE CorrectionsAt(k) = <<>>
               ELSE IF MinConfidence <= 0
                    THEN /\ Len(CorrectionsAt(k)) = 1
                         /\ CorrectionsAt(k)[1].corrected = dlast.out.tokens[PositionOf(k)]
                         /\ CorrectionsAt(k)[1].confidence = 0
                    ELSE CorrectionsAt(k) = <<>>
        /\ dlast.out.result.corrected = join(TokensAfter)
        /\ AllAboveFloor

(* one anomaly replaced by a candidate that is not the first by characters, another *)
(* left alone although it has candidates                                           *)
C14_Witness ==
    /\ Processed
    /\ \E k \in Anomalies :
           /\ HasCandidates(k) /\ ReplacedByBest(k)
           /\ CorrectionsAt(k)[1].corrected # CallOf(k).candidates[1].word
           /\ TokensAfter[PositionOf(k)] # dlast.out.tokens[PositionOf(k)]
    /\ \E k \in Anomalies :
           HasCandidates(k) /\ MaxTotal(k) < MinConfidence /\ CorrectionsAt(k) = <<>>

(* what process can return, on the engine as it is, for the text it last returned *)
Reprocessed ==
    {o.result : o \in process(config, char_matcher, bindings, rules, history,
                              dlast.out.result.corrected)}

OnlyDictionaryWords(text) ==
    \A i \in 1..Len(tokenize(text)) : InDictionary(tokenize(text)[i])

\* C15: for any s whose corrected output consists only of dictionary words,
\* process(process(s).corrected) returns no corrections, confidence 1.0 and the same
\* corrected text.
C15_Idempotent ==
    (Processed /\ OnlyDictionaryWords(dlast.out.result.corrected)) =>
        \A again \in Reprocessed :
            /\ again.corrections = <<>>
            /\ IsOne(again.confidence)
            /\ again.corrected = dlast.out.result.corrected

(* the first pass corrected two tokens, with a confidence below 1.0 *)
C15_Witness ==
    /\ Processed
    /\ Len(dlast.out.result.corrections) = 2
    /\ ~IsOne(dlast.out.result.confidence)
    /\ dlast.out.result.corrected # dlast.input
    /\ OnlyDictionaryWords(dlast.out.result.corrected)
    /\ \E again \in Reprocessed : again.corrected = dlast.out.result.corrected

(* the highest character score among the candidates find_candidates returned *)
MaxCharScore(k) ==
    LET scores == {CallOf(k).candidates[j].score : j \in 1..Len(CallOf(k).candidates)}
    IN CHOOSE s \in scores : \A u \in scores : u <= s

CharsOnly(cfg) == cfg.alpha = 100 /\ cfg.beta = 0 /\ cfg.gamma = 0

\* C16: with alpha = 1 and beta = gamma = 0, the candidate disambiguate_word selects for an
\* anomaly is one of the highest character-similarity score among the candidates
\* find_candidates returned, whatever its grammar and context scores.
C16_CharsOnlySelectsBestChars ==
    (Processed /\ CharsOnly(dlast.config)) =>
        \A k \in Anomalies :
            HasCandidates(k) =>
                \E j \in 1..Len(CallOf(k).candidates) :
                    /\ CallOf(k).candidates[j].word = CallOf(k).correction
                    /\ CallOf(k).candidates[j].score = MaxCharScore(k)
                    /\ CallOf(k).conf = MaxCharScore(k) * 100

(* the selected candidate has neither the best grammar score nor the best context score *)
(* of those scored                                                                      *)
C16_Witness ==
    /\ Processed /\ CharsOnly(dlast.config)
    /\ \E k \in Anomalies :
           /\ HasCandidates(k)
           /\ CallOf(k).correction = CallOf(k).candidates[1].word
           /\ \E j \in 1..Len(CallOf(k).scored) :
                  CallOf(k).scored[j].grammar_score > CallOf(k).scored[1].grammar_score
           /\ \E j \in 1..Len(CallOf(k).scored) :
                  CallOf(k).scored[j].context_score > CallOf(k).scored[1].context_score

(* the k-th anomaly is reported with a zero-confidence explanation *)
ReportedUncorrected(k) ==
    \E i \in 1..Len(dlast.out.result.corrections) :
        LET c == dlast.out.result.corrections[i]
        IN /\ c.position = PositionOf(k)
           /\ c.confidence = 0
           /\ (~HasCandidates(k) => c.explanation.reason = "No se encontraron candidatos")

Uncorrected(k) == ~HasCandidates(k) \/ CallOf(k).conf < MinConfidence

\* C17: every anomaly process does not correct (no candidate found, or best fused score below
\* min_confidence) is reported in the returned ProcessedSentence with a zero-confidence
\* explanation ("no candidates found" in the no-candidate case), and its token is left
\* unmodified in the corrected text.
C17_UncorrectedReported ==
    Processed =>
        \A k \in Anomalies :
            Uncorrected(k) =>
                /\ ReportedUncorrected(k)
                /\ dlast.out.result.corrected = join(TokensAfter)
                /\ TokensAfter[PositionOf(k)] = dlast.out.tokens[PositionOf(k)]

\* C18: the number of candidates scored for one anomaly never exceeds the max_candidates of
\* the orchestrator's Config, also after set_config changes it.
C18_ScoredWithinMaxCandidates ==
    Processed =>
        \A k \in Anomalies : Len(CallOf(k).scored) <= dlast.config.max_candidates

-----------------------------------------------------------------------------
(* Properties of the character matcher (SpecChars)                         *)

(* how many entries of the bucket are the word *)
Occurrences(bucket, word) == Cardinality({i \in 1..Len(bucket) : bucket[i] = word})

\* C19: after any sequence of add_word / load_dictionary calls the letter index holds each
\* dictionary word exactly once in the bucket of each distinct character it contains, and
\* nowhere else: neither a repeated letter nor re-adding a word duplicates an entry.
C19_IndexHoldsWordsOnce ==
    /\ \A word \in char_matcher.dictionary : \A c \in Range(word) :
           /\ c \in DOMAIN char_matcher.letter_index
           /\ Occurrences(char_matcher.letter_index[c], word) = 1
    /\ \A c \in DOMAIN char_matcher.letter_index :
           \A i \in 1..Len(char_matcher.letter_index[c]) :
               /\ char_matcher.letter_index[c][i] \in char_matcher.dictionary
               /\ c \in Range(char_matcher.letter_index[c][i])

(* the distinct letters the two words have in common *)
SharedLetters(a, b) == Range(a) \cap Range(b)

\* C20: for an input that is not a dictionary word, find_candidates returns only words that
\* share at least max(1, ceil(0.5 * |input charset|)) distinct letters with the input.
C20_CandidatesShareHalf ==
    (dlast.op = "find_candidates" /\ ~is_valid(char_matcher, dlast.input)) =>
        \A i \in 1..Len(dlast.out) :
            Cardinality(SharedLetters(dlast.out[i].word, normalize_word(dlast.input)))
                >= Max(1, (Cardinality(Range(normalize_word(dlast.input))) + 1) \div 2)

-----------------------------------------------------------------------------
(* Properties of word normalization (SpecNormalize)                        *)

\* C21: normalize_word returns, for every string, a string it maps to itself, and
\* is_valid answers for a string what it answers for the normalized string, in
\* every dictionary
C21_NormalizeIdempotent ==
    /\ dlast.op = "normalize_word" =>
           normalize_word(dlast.out) = dlast.out
    /\ dlast.op = "is_valid" =>
           dlast.out = is_valid(char_matcher, normalize_word(dlast.input))

(* a string that normalization changes is found in the dictionary *)
C21_Witness ==
    /\ dlast.op = "is_valid"
    /\ dlast.out
    /\ normalize_word(dlast.input) # dlast.input
    /\ \E i \in 1..Len(dlast.input) : dlast.input[i] = "É"

-----------------------------------------------------------------------------
(* Properties of the edit distance (SpecDistance)                          *)

(* the least number of unit-cost insertions, deletions and substitutions that *)
(* turn a into b                                                              *)
RECURSIVE EditDistance(_, _)
EditDistance(a, b) ==
    IF a = <<>> THEN Len(b)
    ELSE IF b = <<>> THEN Len(a)
    ELSE LET substitute == IF Head(a) = Head(b) THEN 0 ELSE 1
         IN Min(EditDistance(Tail(a), Tail(b)) + substitute,
                Min(EditDistance(Tail(a), b) + 1, EditDistance(a, Tail(b)) + 1))

\* C22: levenshtein_distance(a, b) is the edit distance of a and b: 0 for equal
\* strings, the length of a when b is empty, the same for (b, a), and 1 for
\* ("smor", "amor")
C22_LevenshteinIsEditDistance ==
    dlast.op = "levenshtein_distance" =>
        LET a == dlast.input[1]
            b == dlast.input[2]
        IN /\ dlast.out = EditDistance(a, b)
           /\ a = b => dlast.out = 0
           /\ b = <<>> => dlast.out = Len(a)
           /\ dlast.out = levenshtein_distance(b, a)
           /\ (Str(a) = "smor" /\ Str(b) = "amor") => dlast.out = 1

(* one substitution; a distance that needs the three operations *)
C22_Witness ==
    /\ dlast.op = "levenshtein_distance"
    /\ \/ Str(dlast.input[1]) = "smor" /\ Str(dlast.input[2]) = "amor" /\ dlast.out = 1
       \/ Str(dlast.input[1]) = "amor" /\ Str(dlast.input[2]) = "roma" /\ dlast.out = 4

-----------------------------------------------------------------------------
(* Properties of the grammar (SpecGrammar)                                 *)

TypesOf(tokens) == [i \in 1..Len(tokens) |-> classify_token(tokens[i])]

ObjectPronoun(t) == t.type = "Pronoun" /\ t.case \in {"DirectObj", "IndirectObj"}

SubjectBefore(t) == t.type = "Noun" \/ (t.type = "Pronoun" /\ t.case = "Subject")

(* an object pronoun, and no noun or subject pronoun, before the first verb *)
DativeFirst(tokens) ==
    LET types == TypesOf(tokens)
        verb == position_of(types, "Verb")
    IN /\ verb # 0
       /\ \E i \in 1..(verb - 1) : ObjectPronoun(types[i])
       /\ \A i \in 1..(verb - 1) : ~SubjectBefore(types[i])

\* C23: analyze gives the sentence type VSO to every token sequence in which an
\* object pronoun (me, te, le) comes before the first verb and no noun or subject
\* pronoun comes before it
C23_DativeFirstIsVSO ==
    (dlast.op = "analyze" /\ DativeFirst(dlast.input)) =>
        dlast.out.sentence_type = "VSO"

(* the sentence is_valid_at_position analyzes *)
Substituted(word, position, sentence) ==
    IF position <= Len(sentence)
    THEN [sentence EXCEPT ![position] = word]
    ELSE Append(sentence, word)

(* the token just before the position is an article or a preposition *)
FollowsDeterminer(position, tokens) ==
    /\ position - 1 \in 1..Len(tokens)
    /\ position <= Len(tokens)
    /\ classify_token(tokens[position - 1]).type \in {"Article", "Preposition"}

\* C24: is_valid_at_position(word, pos, sentence) is the validity score of the
\* sentence with the word at pos, plus 0.1 exactly when pos follows an article or
\* a preposition and the word is a noun or an adjective
C24_BonusForNounOrAdjective ==
    dlast.op = "is_valid_at_position" =>
        LET word == dlast.input[1]
            position == dlast.input[2]
            tokens == Substituted(word, position, dlast.input[3])
            bonus == IF /\ FollowsDeterminer(position, tokens)
                        /\ classify_token(word).type \in {"Noun", "Adjective"}
                     THEN 10 ELSE 0
        IN dlast.out = analyze(tokens).validity_score + bonus

(* the words of a category; every string can be Unknown *)
Lexicon(type, lower) ==
    CASE type = "Verb" -> lower \in verbs
      [] type = "Noun" -> lower \in nouns
      [] type = "Article" -> lower \in articles
      [] type = "Preposition" -> lower \in prepositions
      [] type = "Pronoun" -> lower \in DOMAIN pronouns
      [] type = "Conjunction" -> lower \in conjunctions
      [] type = "Adverb" -> lower \in adverbs
      [] type = "Adjective" -> lower \in adjectives
      [] OTHER -> TRUE

FirstIn(order, lower) ==
    order[CHOOSE i \in 1..Len(order) :
              /\ Lexicon(order[i], lower)
              /\ \A j \in 1..(i - 1) : ~Lexicon(order[j], lower)]

StatedOrder ==
    <<"Verb", "Noun", "Article", "Preposition", "Pronoun", "Conjunction", "Adverb",
      "Adjective", "Unknown">>

TestedOrder ==
    <<"Article", "Preposition", "Pronoun", "Conjunction", "Adverb", "Verb",
      "Adjective", "Noun", "Unknown">>

\* C25: classify_token gives a token the first category, in the order Verb, Noun,
\* Article, Preposition, Pronoun, Conjunction, Adverb, Adjective, Unknown, whose
\* lexicon set holds the lowercased token
C25_ClassifyInStatedOrder ==
    dlast.op = "classify_token" =>
        dlast.out.type = FirstIn(StatedOrder, Str(to_lowercase(dlast.input)))

\* C25 (amended): classify_token gives a token the first category, in the order
\* Article, Preposition, Pronoun, Conjunction, Adverb, Verb, Adjective, Noun,
\* Unknown, whose lexicon set holds the lowercased token
C25_ClassifyInTestedOrder ==
    dlast.op = "classify_token" =>
        dlast.out.type = FirstIn(TestedOrder, Str(to_lowercase(dlast.input)))

(* a word added as a noun and as an adjective; an article added as a noun *)
C25_Witness ==
    /\ dlast.op = "classify_token"
    /\ LET lower == Str(to_lowercase(dlast.input))
       IN \/ lower \in nouns \cap adjectives /\ dlast.out.type = "Adjective"
          \/ lower \in nouns \cap articles /\ dlast.out.type = "Article"

-----------------------------------------------------------------------------
(* Properties of the semantic database (SpecSemantic)                      *)

(* the compatibility rules of the theme that match the word's category, by index *)
MatchingRules(key, theme) ==
    {i \in 1..Len(compatibility_rules) :
        /\ compatibility_rules[i].theme = theme
        /\ category_matches(words[key].category, compatibility_rules[i].matcher)}

GenericallyCompatible(key, theme) ==
    \E i \in 1..Len(themes[theme].compatible_categories) :
        category_matches(words[key].category, themes[theme].compatible_categories[i])

\* C26: compatibility_score(word, theme) is 0.5 when the word or the theme is
\* unknown; otherwise the score of the first rule of the theme, in insertion
\* order, whose matcher matches the word's category; otherwise 0.7 when a matcher
\* of the theme's compatible categories matches; otherwise 0.2
C26_CompatibilityScore ==
    dlast.op = "compatibility_score" =>
        LET key == Str(to_lowercase(dlast.input[1]))
            theme == dlast.input[2]
            known == key \in DOMAIN words /\ theme \in DOMAIN themes
        IN /\ ~known => dlast.out = 50
           /\ (known /\ MatchingRules(key, theme) # {}) =>
                  \E i \in MatchingRules(key, theme) :
                      /\ \A j \in MatchingRules(key, theme) : i <= j
                      /\ dlast.out = compatibility_rules[i].score
           /\ (known /\ MatchingRules(key, theme) = {}) =>
                  dlast.out = IF GenericallyCompatible(key, theme) THEN 70 ELSE 20

(* a rule that is not the first of its theme decides, against the generic list *)
C26_Witness ==
    /\ dlast.op = "compatibility_score"
    /\ Str(dlast.input[1]) = "amor"
    /\ dlast.input[2] = "viajes"
    /\ dlast.out = 20

-----------------------------------------------------------------------------
(* Properties of the unification kernel (SpecUnify)                        *)

RECURSIVE VarsOf(_)
VarsOf(v) ==
    IF v.tag = "Var" THEN {v.name}
    ELSE UNION {VarsOf(v.items[i]) : i \in 1..Len(v.items)}

(* the variables met from the variables of the frontier through the bindings *)
RECURSIVE ReachedFrom(_, _, _)
ReachedFrom(s, frontier, acc) ==
    LET next == UNION {VarsOf(s[x]) : x \in frontier \cap DOMAIN s} \ acc
    IN IF next = {} THEN acc ELSE ReachedFrom(s, next, acc \cup next)

\* C27: in every store reached by unify calls from the empty store no variable is
\* bound to a value that contains the variable, directly or through other
\* bindings, and deref and apply return on every value
C27_NoCyclicBinding ==
    /\ ~crashed
    /\ \A x \in DOMAIN substitutions : x \notin ReachedFrom(substitutions, {x}, {})
    /\ \A v \in Values :
           /\ deref(substitutions, v, {}) # Diverges
           /\ apply(substitutions, v, {}) # Diverges

(* a chain of bindings: a variable bound to a value that holds a variable bound *)
(* to a list or a structure                                                     *)
C27_Witness ==
    /\ ulast.op = "unify"
    /\ \E x \in DOMAIN substitutions :
           \E y \in VarsOf(substitutions[x]) \cap DOMAIN substitutions :
               substitutions[y].tag \in {"List", "Struct"}

-----------------------------------------------------------------------------
(* Properties of the invariants of the validator (SpecValidator)           *)

HasRuleOf(pred) == \E i \in 1..Len(rules) : rules[i].predicate = pred

\* C28: while the validator holds an invariant NoContradiction(p1, p2), the rule
\* store never holds a rule of predicate p1 together with a rule of predicate p2
C28_NoContradictingRules ==
    \A i \in 1..Len(validator.invariants) :
        validator.invariants[i].check.type = "NoContradiction" =>
            ~(/\ HasRuleOf(validator.invariants[i].check.p1)
              /\ HasRuleOf(validator.invariants[i].check.p2))

-----------------------------------------------------------------------------
(* Properties of the theme the orchestrator publishes (SpecProcess)        *)

(* the words of the call's sentence that the dictionary holds *)
ContextWords == SelectSeq(dlast.out.tokens, InDictionary)

\* C29: after a process call the binding current_theme of the shared context, when
\* there is one, holds the theme inferred from the context words of that call, with
\* source Semantic and confidence 0.8
C29_ThemeOfThisCall ==
    (Processed /\ "current_theme" \in DOMAIN bindings) =>
        /\ \E theme \in infer_theme(ContextWords) :
               theme = {bindings["current_theme"].value.name}
        /\ bindings["current_theme"].value.tag = "Atom"
        /\ bindings["current_theme"].source = "Semantic"
        /\ bindings["current_theme"].confidence = 80

\* C30: the grammar score is_valid_at_position returns lies in [0.5, 1.0] for
\* every word, position and sentence
C30_GrammarScoreInRange ==
    dlast.op = "is_valid_at_position" => (50 <= dlast.out /\ dlast.out <= 100)

====
